---- MODULE Spec2Model ----
(***************************************************************************)
(* Checkpointed coverage-verification pipeline of filter_covered_commits.py *)
(* (ProgressTracker, DynamicSaver, check_jacoco_coverage,                   *)
(* process_single_commit and the batch driver main), for one project.       *)
(*                                                                          *)
(* Strings that the code takes apart (method identifiers, descriptors) are  *)
(* sequences of one-character strings; commit hashes, status and reason     *)
(* codes are compared only for equality and stay TLA+ strings.              *)
(* Files are [state, data] with state "absent", "corrupt" or "ok".          *)
(* Writes by open(..., 'w') + json.dump succeed when the process lives; a   *)
(* process kill that lands inside a write leaves the file truncated         *)
(* ("corrupt").  Timestamps are left out: no branch of the code reads them. *)
(***************************************************************************)
EXTENDS Integers, Sequences, FiniteSets, TLC

(***************************************************************************)
(* Bounds of the model.                                                     *)
(***************************************************************************)
\* driver invocations (first run plus re-invocations after a kill, a crash
\* or a completed run)
MaxRuns == 2

(***************************************************************************)
(* Program constants.                                                       *)
(***************************************************************************)
\* process_single_commit, line 528: len(...) >= 40
MaxMethods == 40
\* process_single_commit, lines 600 and 674: coverage_count < 2
MinCoverage == 2

(***************************************************************************)
(* String helpers (Python str methods used by the code).                    *)
(***************************************************************************)
\* s.find(ch) + 1: the first index of ch in s, 0 when absent
IndexOf(s, ch) ==
  IF \E i \in 1..Len(s) : s[i] = ch
  THEN CHOOSE i \in 1..Len(s) : s[i] = ch /\ \A j \in 1..(i - 1) : s[j] # ch
  ELSE 0

\* s.rfind(ch) + 1: the last index of ch in s, 0 when absent
LastIndexOf(s, ch) ==
  IF \E i \in 1..Len(s) : s[i] = ch
  THEN CHOOSE i \in 1..Len(s) : s[i] = ch /\ \A j \in (i + 1)..Len(s) : s[j] # ch
  ELSE 0

\* s.startswith(p)
StartsWith(s, p) ==
  /\ Len(p) <= Len(s)
  /\ \A i \in 1..Len(p) : s[i] = p[i]

\* s.replace('.', '/')
DotToSlash(s) == [i \in 1..Len(s) |-> IF s[i] = "." THEN "/" ELSE s[i]]

\* s.rstrip(')')
RECURSIVE RStripParen(_)
RStripParen(s) ==
  IF s # <<>> /\ s[Len(s)] = ")" THEN RStripParen(SubSeq(s, 1, Len(s) - 1)) ELSE s

Whitespace == {" "}

\* s.strip()
RECURSIVE LStrip(_)
LStrip(s) == IF s # <<>> /\ s[1] \in Whitespace THEN LStrip(Tail(s)) ELSE s

RECURSIVE RStrip(_)
RStrip(s) ==
  IF s # <<>> /\ s[Len(s)] \in Whitespace THEN RStrip(SubSeq(s, 1, Len(s) - 1)) ELSE s

Strip(s) == LStrip(RStrip(s))

\* s.split(ch): the list of the pieces of s between occurrences of ch
RECURSIVE Split(_, _)
Split(s, ch) ==
  LET i == IndexOf(s, ch) IN
  IF i = 0 THEN <<s>>
  ELSE <<SubSeq(s, 1, i - 1)>> \o Split(SubSeq(s, i + 1, Len(s)), ch)

\* "".join(parts)
RECURSIVE Join(_)
Join(parts) == IF parts = <<>> THEN <<>> ELSE Head(parts) \o Join(Tail(parts))

(***************************************************************************)
(* Descriptor conversion and identifier parsing.                            *)
(***************************************************************************)
primitive_map ==
  [t \in { <<"b","o","o","l","e","a","n">>, <<"b","y","t","e">>, <<"c","h","a","r">>,
           <<"d","o","u","b","l","e">>, <<"f","l","o","a","t">>, <<"i","n","t">>,
           <<"l","o","n","g">>, <<"s","h","o","r","t">>, <<"v","o","i","d">> } |->
     CASE t = <<"b","o","o","l","e","a","n">> -> "Z"
       [] t = <<"b","y","t","e">> -> "B"
       [] t = <<"c","h","a","r">> -> "C"
       [] t = <<"d","o","u","b","l","e">> -> "D"
       [] t = <<"f","l","o","a","t">> -> "F"
       [] t = <<"i","n","t">> -> "I"
       [] t = <<"l","o","n","g">> -> "J"
       [] t = <<"s","h","o","r","t">> -> "S"
       [] t = <<"v","o","i","d">> -> "V"]

\* variant: the dots of a class name are kept
java_type_to_descriptor_dotted(java_type) ==
  LET t == Strip(java_type) IN
  IF t \in DOMAIN primitive_map
  THEN <<primitive_map[t]>>
  ELSE <<"L">> \o t \o <<";">>

java_type_to_descriptor(java_type) ==
  LET t == Strip(java_type) IN
  IF t \in DOMAIN primitive_map
  THEN <<primitive_map[t]>>
  ELSE <<"L">> \o DotToSlash(t) \o <<";">>

params_to_desc_prefix(params_str) ==
  IF params_str = <<>>
  THEN <<"(", ")">>
  ELSE LET params == Split(params_str, ",")
           desc_parts == [i \in 1..Len(params) |-> java_type_to_descriptor(Strip(params[i]))]
       IN <<"(">> \o Join(desc_parts) \o <<")">>

\* The result of parse_method_id: raised is the IndexError of
\* method_id.split('(')[1] on an identifier without '('; none is the
\* (None, None, None) returned for a method part without '.'.
parse_method_id(method_id) ==
  LET parts == Split(method_id, "(") IN
  IF Len(parts) < 2
  THEN [raised |-> TRUE, none |-> FALSE, class_name |-> <<>>, method_name |-> <<>>,
        params_str |-> <<>>]
  ELSE LET method_part == parts[1]
           params_str == RStripParen(parts[2])
           last_dot == LastIndexOf(method_part, ".")
       IN IF last_dot # 0
          THEN [raised |-> FALSE, none |-> FALSE,
                class_name |-> SubSeq(method_part, 1, last_dot - 1),
                method_name |-> SubSeq(method_part, last_dot + 1, Len(method_part)),
                params_str |-> params_str]
          ELSE [raised |-> FALSE, none |-> TRUE, class_name |-> <<>>,
                method_name |-> <<>>, params_str |-> <<>>]

\* `not test_class or not test_method` of the callers: None and the empty
\* string are both falsy
Unparsed(p) == p.none \/ p.class_name = <<>> \/ p.method_name = <<>>

(***************************************************************************)
(* Coverage Interpreter.  A report file is                                  *)
(*   [exists, parseable, classes], classes the <class> elements in document *)
(*   order, each [name, methods], each method [name, desc, counters], each  *)
(*   counter [type, covered].                                               *)
(***************************************************************************)
\* lines 279-283: method.find('counter') is the FIRST counter child
CounterCovers(method) ==
  /\ method.counters # <<>>
  /\ LET counter == method.counters[1] IN
       counter.type = "INSTRUCTION" /\ counter.covered > 0

\* lines 273-287: the scan of one class element for one candidate
MethodCovered(cls, focal_method, params_prefix) ==
  \E m \in 1..Len(cls.methods) :
     /\ cls.methods[m].name = focal_method
     /\ StartsWith(cls.methods[m].desc, params_prefix)
     /\ CounterCovers(cls.methods[m])

\* line 261: params_to_desc_prefix(params_str) if params_str else ''
params_prefix(params_str) ==
  IF params_str # <<>> THEN params_to_desc_prefix(params_str) ELSE <<>>

\* lines 261-288: one candidate against the report; the first class whose
\* name matches ends the search over classes (break at line 288)
CandidateCovered(classes, p) ==
  LET internal_class_name == DotToSlash(p.class_name)
      hits == {c \in 1..Len(classes) : classes[c].name = internal_class_name}
  IN /\ hits # {}
     /\ LET first == CHOOSE c \in hits : \A d \in hits : c <= d
        IN MethodCovered(classes[first], p.method_name, params_prefix(p.params_str))

\* lines 255-295: the loop over the candidates; raised is an exception inside
\* the try (parse_method_id's IndexError), covered the list built so far
RECURSIVE CoverageLoop(_, _, _)
CoverageLoop(classes, focal_methods, covered_methods) ==
  IF focal_methods = <<>>
  THEN [raised |-> FALSE, covered |-> covered_methods]
  ELSE LET focal_method_id == Head(focal_methods)
           p == parse_method_id(focal_method_id)
       IN IF p.raised THEN [raised |-> TRUE, covered |-> covered_methods]
          ELSE IF Unparsed(p) THEN CoverageLoop(classes, Tail(focal_methods), covered_methods)
          ELSE IF CandidateCovered(classes, p)
               THEN CoverageLoop(classes, Tail(focal_methods),
                                 Append(covered_methods, focal_method_id))
               ELSE CoverageLoop(classes, Tail(focal_methods), covered_methods)

\* variant: without a usable report every candidate counts as covered
check_jacoco_coverage_all(report, focal_methods) ==
  IF ~report.exists \/ ~report.parseable THEN focal_methods
  ELSE CoverageLoop(report.classes, focal_methods, <<>>).covered

check_jacoco_coverage(report, focal_methods) ==
  IF ~report.exists THEN <<>>
  ELSE IF ~report.parseable THEN <<>>
  ELSE LET r == CoverageLoop(report.classes, focal_methods, <<>>)
       IN IF r.raised THEN <<>> ELSE r.covered

(***************************************************************************)
(* Inputs: method identifiers, coverage reports, commit descriptors and     *)
(* the work lists (valid-commits files) the driver is run on.               *)
(***************************************************************************)
DigitChar(d) ==
  CASE d = 0 -> "0" [] d = 1 -> "1" [] d = 2 -> "2" [] d = 3 -> "3" [] d = 4 -> "4"
    [] d = 5 -> "5" [] d = 6 -> "6" [] d = 7 -> "7" [] d = 8 -> "8" [] d = 9 -> "9"

Decimal(n) == IF n < 10 THEN <<DigitChar(n)>> ELSE <<DigitChar(n \div 10), DigitChar(n % 10)>>

\* test identifiers: a.T.t1(), a.T.t2(); t3() has no class separator;
\* a.T.t4 has no parameter list
T1 == <<"a", ".", "T", ".", "t", "1", "(", ")">>
T2 == <<"a", ".", "T", ".", "t", "2", "(", ")">>
TNoClass == <<"t", "3", "(", ")">>
TNoParen == <<"a", ".", "T", ".", "t", "4">>
\* a.T.u<i>()
GenTest(i) == <<"a", ".", "T", ".", "u">> \o Decimal(i) \o <<"(", ")">>

\* focal identifiers: a.F.f(int), a.F.g()
F1 == <<"a", ".", "F", ".", "f", "(", "i", "n", "t", ")">>
F2 == <<"a", ".", "F", ".", "g", "(", ")">>
\* a.F.k<i>()
GenFocal(i) == <<"a", ".", "F", ".", "k">> \o Decimal(i) \o <<"(", ")">>

ClassF(f_covered, g_covered) ==
  [name |-> <<"a", "/", "F">>,
   methods |-> << [name |-> <<"f">>, desc |-> <<"(", "I", ")", "V">>,
                   counters |-> << [type |-> "INSTRUCTION", covered |-> f_covered],
                                   [type |-> "LINE", covered |-> f_covered] >>],
                  [name |-> <<"g">>, desc |-> <<"(", ")", "V">>,
                   counters |-> << [type |-> "INSTRUCTION", covered |-> g_covered] >>] >>]

\* target/site/jacoco/jacoco.xml as a test run can leave it: no file, a file
\* that is not XML, and reports covering none, one or both of a.F.f, a.F.g
Reports ==
  << [exists |-> FALSE, parseable |-> FALSE, classes |-> <<>>],
     [exists |-> TRUE, parseable |-> FALSE, classes |-> <<>>],
     [exists |-> TRUE, parseable |-> TRUE, classes |-> <<ClassF(0, 0)>>],
     [exists |-> TRUE, parseable |-> TRUE, classes |-> <<ClassF(5, 0)>>],
     [exists |-> TRUE, parseable |-> TRUE, classes |-> <<ClassF(5, 3)>>] >>

NoReport == 1

Descriptor(sha, new_tests, new_focals, old_tests, old_focals) ==
  [commit |-> [sha1 |-> sha],
   focal_methods |-> [new |-> new_focals, old |-> old_focals],
   test_methods |-> [new |-> new_tests, old |-> old_tests]]

\* two new tests, one old test, two focal methods per revision
Plain(sha) == Descriptor(sha, <<T1, T2>>, <<F1, F2>>, <<T2>>, <<F1, F2>>)
\* one new test, two old tests
TwoOld(sha) == Descriptor(sha, <<T1>>, <<F1, F2>>, <<T2, T1>>, <<F1, F2>>)
\* one test per revision
Single(sha) == Descriptor(sha, <<T1>>, <<F1, F2>>, <<T2>>, <<F2, F1>>)
\* MaxMethods - 1 old focal methods
Wide39(sha) ==
  Descriptor(sha, <<T1>>, <<F1, F2>>, <<T1>>,
             <<F1, F2>> \o [i \in 1..(MaxMethods - 3) |-> GenFocal(i)])
\* MaxMethods new focal methods
Wide40(sha) ==
  Descriptor(sha, <<T1>>, <<F1, F2>> \o [i \in 1..(MaxMethods - 2) |-> GenFocal(i)],
             <<T1>>, <<F1, F2>>)
\* MaxMethods + 1 new test methods
Wide41(sha) ==
  Descriptor(sha, [i \in 1..(MaxMethods + 1) |-> GenTest(i)], <<F1, F2>>, <<T1>>, <<F1, F2>>)
\* no old test method
NoOldTest(sha) == Descriptor(sha, <<T1>>, <<F1, F2>>, <<>>, <<F1, F2>>)
\* a new test identifier without class separator
WithNoClass(sha) == Descriptor(sha, <<TNoClass, T1>>, <<F1, F2>>, <<T1>>, <<F1, F2>>)
\* an old test identifier without '('
WithNoParen(sha) == Descriptor(sha, <<T1>>, <<F1, F2>>, <<TNoParen, T1>>, <<F1, F2>>)
\* a descriptor without 'focal_methods' and 'test_methods'
NoFields(sha) == [commit |-> [sha1 |-> sha]]
\* a descriptor without 'commit'
NoCommit ==
  [focal_methods |-> [new |-> <<F1>>, old |-> <<F1>>],
   test_methods |-> [new |-> <<T1>>, old |-> <<T1>>]]

\* the contents of <project>-valid.json the model is run on; commit hashes
\* are distinct within a list
WorkLists ==
  << <<Single("c1"), Plain("c2")>>,
     <<Wide40("c1"), Single("c2")>>,
     <<Wide39("c1"), NoOldTest("c2"), Wide41("c3")>>,
     <<WithNoClass("c1"), WithNoParen("c2")>>,
     <<Single("c1"), NoFields("c2"), Single("c3")>>,
     <<NoCommit, Single("c2")>>,
     <<TwoOld("c1")>>,
     <<Single("c1"), Single("c4")>>,
     <<>> >>

\* the build descriptor (pom.xml) of each revision in the repository:
\* <javac.src.version> and <javac.target.version>, "none" when not declared
RepoPom(sha, rev) ==
  CASE sha = "c1" /\ rev = "new" -> [src_version |-> "1.8", target_version |-> "1.8"]
    [] sha = "c1" /\ rev = "old" -> [src_version |-> "none", target_version |-> "none"]
    [] sha = "c2" /\ rev = "new" -> [src_version |-> "none", target_version |-> "17"]
    [] sha = "c2" /\ rev = "old" -> [src_version |-> "11", target_version |-> "21"]
    [] sha = "c4" /\ rev = "new" -> [src_version |-> "none", target_version |-> "none"]
    [] sha = "c4" /\ rev = "old" -> [src_version |-> "none", target_version |-> "17"]
    [] OTHER -> [src_version |-> "21", target_version |-> "8"]

(***************************************************************************)
(* State.                                                                   *)
(***************************************************************************)
VARIABLES
  wl,                 \* which work list the project's valid-commits file holds
  pc,                 \* position of the driver process
  runs,               \* driver invocations so far
  progressFile,       \* <project>_progress.json
  resultsFile,        \* <project>_covered_pairs.json
  workspace,          \* the checked-out repository: [head, report, ran]
  java_home,          \* os.environ['JAVA_HOME'] of the driver process
  progress,           \* main: progress
  start_index,        \* main: start_index
  commit_idx,         \* main: commit_idx
  success,            \* main: success
  new_pairs,          \* process_single_commit locals
  old_pairs,
  new_coverage_count,
  old_coverage_count,
  ti,                 \* position of the running for loop in its test list
  result,             \* the result handed to dynamic_saver.append_result
  cmdLog,             \* history: external commands of the current invocation
  vstate,             \* history: the verifier's state (Init .. Success)
  exit_path,          \* history: the return the current invocation took
  appended,           \* history: results the current invocation handed to append_result
  handed,             \* history: indices this run handed to process_single_commit
  loaded,             \* history: the progress file as this run found it
  resultsAtLoad,      \* history: the results file as this run found it
  interrupted,        \* history: commit whose processing a kill interrupted
  cov,                \* a call of check_jacoco_coverage or params_to_desc_prefix
                      \* on its own: [op, report, input, types, called, out]
  pom_xml,            \* a pom.xml handed to configure_jacoco_in_pom on its own:
                      \* [doc, original, applied]
  succeeded,          \* history: commits whose verification ended with success
  tested_with,        \* history: [sha, rev, java_home] of every test run so far
  rv                  \* a call of GitTestRevert.revert_test_changes on its own:
                      \* [diff, tree, test_files, i, returned]

vars ==
  <<wl, pc, runs, progressFile, resultsFile, workspace, java_home, progress,
    start_index, commit_idx, success, new_pairs, old_pairs, new_coverage_count,
    old_coverage_count, ti, result, cmdLog, vstate, exit_path, appended, handed,
    loaded, resultsAtLoad, interrupted, cov, pom_xml, succeeded,
    tested_with, rv>>

files == <<progressFile, resultsFile>>
locals ==
  <<new_pairs, old_pairs, new_coverage_count, old_coverage_count, ti, result>>
history == <<cmdLog, vstate, exit_path, appended>>

commits_data == WorkLists[wl]
total_commits == Len(commits_data)
\* commits_data[commit_idx] (Python indexes from 0)
commit_info == commits_data[commit_idx + 1]
commit_id == commit_info.commit.sha1

\* a pom.xml as configure_jacoco_in_pom sees it: whether it has a <build>, whether
\* that <build> has a <plugins>, the <plugin> blocks of the first <plugins> of the
\* first <build>, and the <plugin> blocks anywhere else in the file
EmptyPom == [has_build |-> FALSE, has_plugins |-> FALSE, plugins |-> <<>>, elsewhere |-> <<>>]

\* no stand-alone call of revert_test_changes is under way
RevertIdle ==
  [diff |-> <<>>, tree |-> <<>>, test_files |-> <<>>, i |-> 0, returned |-> "none"]

\* no stand-alone call of configure_jacoco_in_pom is under way
PomIdle == [doc |-> EmptyPom, original |-> EmptyPom, applied |-> 0]

\* no stand-alone call of the Coverage Interpreter is under way
CovIdle ==
  [op |-> "idle", report |-> 0, input |-> <<>>, types |-> <<>>, called |-> FALSE,
   out |-> <<>>]

(***************************************************************************)
(* Progress Tracker.                                                        *)
(***************************************************************************)
\* lines 32-41: the record load_progress returns when there is no usable file
FreshProgress ==
  [status |-> "not_started", processed_commits |-> <<>>, current_index |-> 0,
   total_commits |-> 0, successful_commits |-> 0]

AbsentProgressFile == [state |-> "absent", data |-> FreshProgress]
CorruptProgressFile == [state |-> "corrupt", data |-> FreshProgress]

\* variant: the persisted record is never used
load_progress_lost(file) == FreshProgress

\* lines 23-41: a missing file, and a file json.load fails on, give the
\* fresh record
load_progress(file) == IF file.state = "ok" THEN file.data ELSE FreshProgress

\* lines 43-54: the file after a completed save
save_progress(progress_data) == [state |-> "ok", data |-> progress_data]

\* variant: no commit counts as processed
is_commit_processed_never(file, commit_sha) == FALSE

\* lines 56-59
is_commit_processed(file, commit_sha) ==
  \E i \in 1..Len(load_progress(file).processed_commits) :
     load_progress(file).processed_commits[i] = commit_sha

(***************************************************************************)
(* Result Accumulator.                                                      *)
(***************************************************************************)
AbsentResultsFile == [state |-> "absent", data |-> <<>>]
CorruptResultsFile == [state |-> "corrupt", data |-> <<>>]

\* lines 85-91: a file json.load fails on reads as the empty list; lines
\* 77-80 create a missing file as the empty list
existing_results(file) == IF file.state = "ok" THEN file.data ELSE <<>>

\* variant: the result is always added at the end
Upsert_always_append(existing, r) == Append(existing, r)

\* variant: the record of the same commit is dropped and the result added at
\* the end
Upsert_move_to_end(existing, r) ==
  Append(SelectSeq(existing, LAMBDA e : e.commit # r.commit), r)

\* lines 93-102: replace the first record of the same commit, else append
Upsert(existing, r) ==
  LET same == {i \in 1..Len(existing) : existing[i].commit = r.commit} IN
  IF same # {}
  THEN LET i == CHOOSE k \in same : \A j \in same : k <= j
       IN [existing EXCEPT ![i] = r]
  ELSE Append(existing, r)

\* variant: a file that cannot be read is left as it is
append_result_failing(file, r) ==
  IF file.state = "corrupt" THEN file
  ELSE [state |-> "ok", data |-> Upsert(existing_results(file), r)]

\* lines 72-112: the file after a completed append_result
append_result(file, r) == [state |-> "ok", data |-> Upsert(existing_results(file), r)]

(***************************************************************************)
(* Revision Executor: the effect of the external commands on the checkout   *)
(* and on the process environment.                                          *)
(***************************************************************************)
\* one entry of the command history
Cmd(name, rev, arg, ok, covered) ==
  [cmd |-> name, rev |-> rev, arg |-> arg, ok |-> ok, covered |-> covered]

\* git reset --hard <rev>: target/ is untracked and survives
git_reset(ws, sha, rev) == [ws EXCEPT !.head = [sha |-> sha, rev |-> rev]]

\* mvn clean removes target/
mvn_clean(ws) == [ws EXCEPT !.report = NoReport, !.ran = <<>>]

\* shutil.rmtree(target/site), lines 567-576
rmtree_site(ws) == [ws EXCEPT !.report = NoReport]

\* mvn test -Dtest=<test>: the run leaves its build and coverage artifacts in
\* target/ (ran: the tests run since target/ was last removed), and a
\* passing run leaves the report r
mvn_test(ws, test_method_id, ok, r) ==
  [ws EXCEPT !.ran = Append(@, test_method_id), !.report = IF ok THEN r ELSE @]

\* variant: the report is queried after a failed test run as well
covered_methods_of_unguarded(ok, report, focal_methods) ==
  check_jacoco_coverage(report, focal_methods)

\* lines 580-586 and 654-660: `continue` after a failed test run, the
\* coverage query after a passing one
covered_methods_of(ok, report, focal_methods) ==
  IF ok THEN check_jacoco_coverage(report, focal_methods) ELSE <<>>

\* the command history of one test: the test run and, when it passed, the
\* coverage query
TestCmds(rev, test_method_id, ok, covered_methods) ==
  IF ok
  THEN << Cmd("mvn test", rev, test_method_id, TRUE, covered_methods),
          Cmd("check_jacoco_coverage", rev, test_method_id, TRUE, covered_methods) >>
  ELSE << Cmd("mvn test", rev, test_method_id, FALSE, covered_methods) >>

\* lines 339-405: the JAVA_HOME after modify_java_version, given the one before
modify_java_version(pom, current) ==
  IF pom.src_version = "none" /\ pom.target_version = "none" THEN current
  ELSE LET declared == IF pom.src_version # "none" THEN pom.src_version
                       ELSE pom.target_version
           java_version == IF declared = "1.8" THEN "8" ELSE declared
       IN IF java_version \in {"8", "17", "21"} THEN java_version ELSE "8"

\* the <plugin> blocks a pom.xml can hold: two unrelated plugins; the block of
\* lines 416-435; a jacoco-maven-plugin block as a project writes it, groupId
\* first; and a jacoco-maven-plugin block with its artifactId before its
\* groupId (or a comment after <plugin>), which Maven reads as the same plugin
OtherBlocks == {"other_a", "other_b"}
JacocoBlocks == {"jacoco", "jacoco_pre", "jacoco_alt"}
Blocks == OtherBlocks \cup JacocoBlocks

\* line 439: the blocks whose text matches jacoco_pattern
MatchesJacocoPattern(b) == b \in {"jacoco", "jacoco_pre"}

\* lines 410-505, on the text of a pom.xml
configure_jacoco_in_pom(doc) ==
  LET \* line 435: 'jacoco-maven-plugin' in content
      mentioned == \E i \in 1..Len(doc.plugins \o doc.elsewhere) :
                      (doc.plugins \o doc.elsewhere)[i] \in JacocoBlocks
      \* lines 438-440: re.sub deletes every match of jacoco_pattern
      sub(blocks) == IF mentioned
                     THEN SelectSeq(blocks, LAMBDA b : ~MatchesJacocoPattern(b))
                     ELSE blocks
      plugins == sub(doc.plugins)
      elsewhere == sub(doc.elsewhere)
  IN IF doc.has_build
     THEN IF doc.has_plugins
          THEN \* lines 459-469: after the last </plugin>, or first in an empty list
               [doc EXCEPT !.plugins = IF plugins # <<>> THEN Append(plugins, "jacoco")
                                       ELSE <<"jacoco">> \o plugins,
                           !.elsewhere = elsewhere]
          ELSE \* lines 480-485: a new <plugins> at the end of the <build>
               [doc EXCEPT !.has_plugins = TRUE, !.plugins = <<"jacoco">>,
                           !.elsewhere = elsewhere]
     ELSE \* lines 486-496: a new <build> before </project>
          [doc EXCEPT !.has_build = TRUE, !.has_plugins = TRUE, !.plugins = <<"jacoco">>,
                      !.elsewhere = elsewhere]

\* lines 303-312 and 617: git show of <commit>~1; reads the repository only
get_commit_info(sha) == Cmd("git show", "old", sha, TRUE, <<>>)

\* variant: no environment preparation
PrepareCmds_none(rev) == <<>>

\* lines 552-554 and 638-640, in call order
PrepareCmds(rev) ==
  << Cmd("configure_jacoco_in_pom", rev, "pom.xml", TRUE, <<>>),
     Cmd("modify_java_version", rev, "pom.xml", TRUE, <<>>),
     Cmd("modify_parent_version", rev, "pom.xml", TRUE, <<>>) >>

(***************************************************************************)
(* Commit Verifier: pieces of process_single_commit.                        *)
(***************************************************************************)
Pair(test_method_id, focal_method_id) ==
  [test_method_id |-> test_method_id, focal_method_id |-> focal_method_id]

\* lines 589-594 / 663-668
PairsOf(test_method_id, covered_methods) ==
  [i \in 1..Len(covered_methods) |-> Pair(test_method_id, covered_methods[i])]

NoResult == [commit |-> "", status |-> "none"]

\* lines 604-610, 624-630, 678-684
FailedResult(cid, reason) ==
  [commit |-> cid, new_pairs |-> <<>>, old_pairs |-> <<>>, status |-> "failed",
   reason |-> reason]

\* variant: the two pair lists change places
SuccessResult_swapped(cid, np, op) ==
  [commit |-> cid, new_pairs |-> op, old_pairs |-> np, status |-> "success"]

\* lines 690-695
SuccessResult(cid, np, op) ==
  [commit |-> cid, new_pairs |-> np, old_pairs |-> op, status |-> "success"]

\* lines 704-710
ErrorResult(cid, message) ==
  [commit |-> cid, new_pairs |-> <<>>, old_pairs |-> <<>>, status |-> "error",
   error_message |-> message]

\* lines 516-519 read these keys outside the try
HasMethodFields(ci) == {"focal_methods", "test_methods"} \subseteq DOMAIN ci

\* variant: > in place of >=
Rejected_gt(ci) ==
  \/ Len(ci.test_methods.new) > MaxMethods
  \/ Len(ci.focal_methods.new) > MaxMethods
  \/ Len(ci.test_methods.old) > MaxMethods
  \/ Len(ci.focal_methods.old) > MaxMethods
  \/ Len(ci.test_methods.old) = 0
  \/ Len(ci.test_methods.new) = 0
  \/ Len(ci.focal_methods.new) = 0
  \/ Len(ci.focal_methods.old) = 0

\* line 528
Rejected(ci) ==
  \/ Len(ci.test_methods.new) >= MaxMethods
  \/ Len(ci.focal_methods.new) >= MaxMethods
  \/ Len(ci.test_methods.old) >= MaxMethods
  \/ Len(ci.focal_methods.old) >= MaxMethods
  \/ Len(ci.test_methods.old) = 0
  \/ Len(ci.test_methods.new) = 0
  \/ Len(ci.focal_methods.new) = 0
  \/ Len(ci.focal_methods.old) = 0

\* variant: one covered pair is enough
GateFails_lt1(coverage_count) == coverage_count < MinCoverage - 1

\* lines 600 and 674
GateFails(coverage_count) == coverage_count < MinCoverage

\* variant: every run starts at the first commit
StartIndex_zero(p) == 0

\* line 789
StartIndex(p) == p.current_index

\* variant: no save before the commit
CheckpointBefore_skipped(file, progress_data) == file

\* lines 797-799: the progress file after the checkpoint before a commit
CheckpointBefore(file, progress_data) == save_progress(progress_data)

\* lines 807-814: the record after a commit returned
Advance(p, ok, cid) ==
  [p EXCEPT !.successful_commits = IF ok THEN @ + 1 ELSE @,
            !.processed_commits = Append(@, cid)]

\* what the process loses when it ends
MemoryReset ==
  /\ progress' = FreshProgress
  /\ start_index' = 0
  /\ commit_idx' = 0
  /\ success' = FALSE
  /\ new_pairs' = <<>>
  /\ old_pairs' = <<>>
  /\ new_coverage_count' = 0
  /\ old_coverage_count' = 0
  /\ ti' = 0
  /\ result' = NoResult
  /\ java_home' = "unset"
  /\ cmdLog' = <<>>
  /\ vstate' = "Init"
  /\ exit_path' = "none"
  /\ appended' = <<>>
  /\ handed' = <<>>
  /\ loaded' = AbsentProgressFile
  /\ resultsAtLoad' = AbsentResultsFile

Init ==
  /\ wl \in 1..Len(WorkLists)
  /\ pc = "start"
  /\ runs = 1
  /\ progressFile = AbsentProgressFile
  /\ resultsFile = AbsentResultsFile
  /\ workspace = [head |-> [sha |-> "none", rev |-> "none"], report |-> NoReport,
                  ran |-> <<>>]
  /\ java_home = "unset"
  /\ progress = FreshProgress
  /\ start_index = 0
  /\ commit_idx = 0
  /\ success = FALSE
  /\ new_pairs = <<>>
  /\ old_pairs = <<>>
  /\ new_coverage_count = 0
  /\ old_coverage_count = 0
  /\ ti = 0
  /\ result = NoResult
  /\ cmdLog = <<>>
  /\ vstate = "Init"
  /\ exit_path = "none"
  /\ appended = <<>>
  /\ handed = <<>>
  /\ loaded = AbsentProgressFile
  /\ resultsAtLoad = AbsentResultsFile
  /\ interrupted = "none"
  /\ cov = CovIdle
  /\ pom_xml = PomIdle
  /\ succeeded = {}
  /\ tested_with = {}
  /\ rv = RevertIdle

(***************************************************************************)
(* Batch Driver: main, for one project.                                     *)
(***************************************************************************)
\* lines 759-789: load the progress, initialise a new project, resume
MainStart ==
  /\ pc = "start"
  /\ LET p == load_progress(progressFile)
         q == IF p.status = "not_started"
              THEN [status |-> "running", processed_commits |-> <<>>,
                    current_index |-> 0, total_commits |-> total_commits,
                    successful_commits |-> 0]
              ELSE p
     IN /\ progress' = q
        /\ start_index' = StartIndex(q)
        /\ commit_idx' = StartIndex(q)
  /\ loaded' = progressFile
  /\ resultsAtLoad' = resultsFile
  /\ pc' = "loop"
  /\ UNCHANGED <<wl, cov, rv, pom_xml, succeeded, tested_with, runs, files, workspace, java_home, success, locals, history,
                 handed, interrupted>>

\* line 794: commit_info['commit']['sha1'] raises KeyError outside any try;
\* the exception ends the driver
MainKeyError ==
  /\ pc = "loop"
  /\ commit_idx < total_commits
  /\ "commit" \notin DOMAIN commit_info
  /\ pc' = "crashed"
  /\ MemoryReset
  /\ UNCHANGED <<wl, cov, rv, pom_xml, succeeded, tested_with, runs, files, workspace, interrupted>>

\* lines 791-799: the checkpoint before the commit is attempted
PreCheckpoint ==
  /\ pc = "loop"
  /\ commit_idx < total_commits
  /\ "commit" \in DOMAIN commit_info
  /\ progress' = [progress EXCEPT !.current_index = commit_idx]
  /\ progressFile' = CheckpointBefore(progressFile, progress')
  /\ handed' = Append(handed, commit_idx)
  /\ pc' = "psc_entry"
  /\ UNCHANGED <<wl, cov, rv, pom_xml, succeeded, tested_with, runs, resultsFile, workspace, java_home, start_index, commit_idx,
                 success, locals, history, loaded, resultsAtLoad, interrupted>>

\* lines 807-814: count, record the commit as processed, checkpoint again
PostCheckpoint ==
  /\ pc = "post"
  /\ progress' = Advance(progress, success, commit_id)
  /\ progressFile' = save_progress(progress')
  /\ commit_idx' = commit_idx + 1
  /\ pc' = "loop"
  /\ success' = FALSE
  /\ new_pairs' = <<>>
  /\ old_pairs' = <<>>
  /\ new_coverage_count' = 0
  /\ old_coverage_count' = 0
  /\ ti' = 0
  /\ result' = NoResult
  /\ cmdLog' = <<>>
  /\ vstate' = "Init"
  /\ exit_path' = "none"
  /\ appended' = <<>>
  /\ interrupted' = "none"
  /\ UNCHANGED <<wl, cov, rv, pom_xml, succeeded, tested_with, runs, resultsFile, workspace, java_home, start_index, handed, loaded,
                 resultsAtLoad>>

\* lines 822-830: the loop is exhausted; the project is completed
Finalize ==
  /\ pc = "loop"
  /\ commit_idx >= total_commits
  /\ progressFile' = save_progress([progress EXCEPT !.status = "completed"])
  /\ pc' = "done"
  /\ MemoryReset
  /\ UNCHANGED <<wl, cov, rv, pom_xml, succeeded, tested_with, runs, resultsFile, workspace, interrupted>>

(***************************************************************************)
(* Commit Verifier: process_single_commit.                                  *)
(***************************************************************************)
\* lines 511-514
PscSkipProcessed ==
  /\ pc = "psc_entry"
  /\ is_commit_processed(progressFile, commit_id)
  /\ success' = TRUE
  /\ exit_path' = "skipped"
  /\ pc' = "post"
  /\ UNCHANGED <<wl, cov, rv, pom_xml, succeeded, tested_with, runs, files, workspace, java_home, progress, start_index,
                 commit_idx, locals, cmdLog, vstate, appended, handed, loaded, resultsAtLoad,
                 interrupted>>

\* lines 516-519: a missing key raises KeyError before the try of line 536;
\* nothing in main catches it
PscKeyError ==
  /\ pc = "psc_entry"
  /\ ~is_commit_processed(progressFile, commit_id)
  /\ ~HasMethodFields(commit_info)
  /\ pc' = "crashed"
  /\ MemoryReset
  /\ UNCHANGED <<wl, cov, rv, pom_xml, succeeded, tested_with, runs, files, workspace, interrupted>>

\* lines 528-530
PscReject ==
  /\ pc = "psc_entry"
  /\ ~is_commit_processed(progressFile, commit_id)
  /\ HasMethodFields(commit_info)
  /\ Rejected(commit_info)
  /\ success' = FALSE
  /\ exit_path' = "rejected"
  /\ pc' = "post"
  /\ UNCHANGED <<wl, cov, rv, pom_xml, succeeded, tested_with, runs, files, workspace, java_home, progress, start_index,
                 commit_idx, locals, cmdLog, vstate, appended, handed, loaded, resultsAtLoad,
                 interrupted>>

\* lines 531-536
PscAdmit ==
  /\ pc = "psc_entry"
  /\ ~is_commit_processed(progressFile, commit_id)
  /\ HasMethodFields(commit_info)
  /\ ~Rejected(commit_info)
  /\ new_pairs' = <<>>
  /\ old_pairs' = <<>>
  /\ pc' = "checkout_new"
  /\ UNCHANGED <<wl, cov, rv, pom_xml, succeeded, tested_with, runs, files, workspace, java_home, progress, start_index,
                 commit_idx, success, new_coverage_count, old_coverage_count, ti,
                 result, history, handed, loaded, resultsAtLoad, interrupted>>

\* lines 538-544: git reset --hard <commit>; a failure returns False and
\* persists nothing
CheckoutNew ==
  /\ pc = "checkout_new"
  /\ \E ok \in BOOLEAN :
       /\ cmdLog' = Append(cmdLog, Cmd("git reset --hard", "new", commit_id, ok, <<>>))
       /\ IF ok
          THEN /\ workspace' = git_reset(workspace, commit_id, "new")
               /\ vstate' = "SwitchedToNew"
               /\ pc' = "prepare_new"
               /\ UNCHANGED <<success, exit_path>>
          ELSE /\ success' = FALSE
               /\ exit_path' = "switch_failed"
               /\ pc' = "post"
               /\ UNCHANGED <<workspace, vstate>>
  /\ UNCHANGED <<wl, cov, rv, pom_xml, succeeded, tested_with, runs, files, java_home, progress, start_index, commit_idx,
                 locals, appended, handed, loaded, resultsAtLoad, interrupted>>

\* lines 552-557
PrepareNew ==
  /\ pc = "prepare_new"
  /\ java_home' = modify_java_version(RepoPom(commit_id, "new"), java_home)
  /\ cmdLog' = cmdLog \o PrepareCmds("new")
  /\ new_coverage_count' = 0
  /\ ti' = 1
  /\ pc' = "new_loop"
  /\ UNCHANGED <<wl, cov, rv, pom_xml, succeeded, tested_with, runs, files, workspace, progress, start_index, commit_idx,
                 success, new_pairs, old_pairs, old_coverage_count, result, vstate,
                 exit_path, appended, handed, loaded, resultsAtLoad, interrupted>>

\* lines 559-576: mvn clean, parse the test identifier, remove target/site
NewIterate ==
  /\ pc = "new_loop"
  /\ ti <= Len(commit_info.test_methods.new)
  /\ LET test_method_id == commit_info.test_methods.new[ti]
         p == parse_method_id(test_method_id)
         cleaned == mvn_clean(workspace)
     IN /\ cmdLog' = Append(cmdLog, Cmd("mvn clean", "new", "target", TRUE, <<>>))
        /\ IF p.raised
           THEN /\ workspace' = cleaned
                /\ result' = ErrorResult(commit_id, "list index out of range")
                /\ exit_path' = "error"
                /\ pc' = "append"
                /\ UNCHANGED ti
           ELSE IF Unparsed(p)
           THEN /\ workspace' = cleaned
                /\ ti' = ti + 1
                /\ UNCHANGED <<pc, result, exit_path>>
           ELSE /\ workspace' = rmtree_site(cleaned)
                /\ pc' = "new_test"
                /\ UNCHANGED <<ti, result, exit_path>>
  /\ UNCHANGED <<wl, cov, rv, pom_xml, succeeded, tested_with, runs, files, java_home, progress, start_index, commit_idx,
                 success, new_pairs, old_pairs, new_coverage_count, old_coverage_count,
                 vstate, appended, handed, loaded, resultsAtLoad, interrupted>>

\* lines 577-594: run the one test; on success query the report
NewTest ==
  /\ pc = "new_test"
  /\ \E ok \in BOOLEAN, r \in 1..Len(Reports) :
       LET test_method_id == commit_info.test_methods.new[ti]
           covered_methods == covered_methods_of(ok, Reports[r], commit_info.focal_methods.new)
       IN /\ ~ok => r = workspace.report
          /\ workspace' = mvn_test(workspace, test_method_id, ok, r)
          /\ cmdLog' = cmdLog \o TestCmds("new", test_method_id, ok, covered_methods)
          /\ new_pairs' = new_pairs \o PairsOf(test_method_id, covered_methods)
          /\ new_coverage_count' = new_coverage_count + Len(covered_methods)
  /\ ti' = ti + 1
  /\ tested_with' = tested_with \cup {[sha |-> commit_id, rev |-> "new", java_home |-> java_home]}
  /\ pc' = "new_loop"
  /\ UNCHANGED <<wl, cov, rv, pom_xml, succeeded, runs, files, java_home, progress, start_index, commit_idx,
                 success, old_pairs, old_coverage_count, result, vstate, exit_path,
                 appended, handed, loaded, resultsAtLoad, interrupted>>

\* lines 597-612: the new-coverage gate
NewGate ==
  /\ pc = "new_loop"
  /\ ti > Len(commit_info.test_methods.new)
  /\ IF GateFails(new_coverage_count)
     THEN /\ result' = FailedResult(commit_id, "new_coverage_less_than_2")
          /\ vstate' = "NewTestsExecuted"
          /\ exit_path' = "new_gate"
          /\ pc' = "append"
     ELSE /\ vstate' = "NewThresholdChecked"
          /\ pc' = "checkout_old"
          /\ UNCHANGED <<result, exit_path>>
  /\ UNCHANGED <<wl, cov, rv, pom_xml, succeeded, tested_with, runs, files, workspace, java_home, progress, start_index,
                 commit_idx, success, new_pairs, old_pairs, new_coverage_count,
                 old_coverage_count, ti, cmdLog, appended, handed, loaded, resultsAtLoad,
                 interrupted>>

\* lines 614-635: git show and git reset --hard of <commit>~1, then one
\* mvn clean
CheckoutOld ==
  /\ pc = "checkout_old"
  /\ \E ok \in BOOLEAN :
       IF ok
       THEN /\ workspace' = mvn_clean(git_reset(workspace, commit_id, "old"))
            /\ cmdLog' = cmdLog \o << get_commit_info(commit_id),
                                      Cmd("git reset --hard", "old", commit_id, TRUE, <<>>),
                                      Cmd("mvn clean", "old", "target", TRUE, <<>>) >>
            /\ vstate' = "SwitchedToOld"
            /\ pc' = "prepare_old"
            /\ UNCHANGED <<result, exit_path>>
       ELSE /\ cmdLog' = cmdLog \o << get_commit_info(commit_id),
                                      Cmd("git reset --hard", "old", commit_id, FALSE, <<>>) >>
            /\ result' = FailedResult(commit_id, "failed_to_switch_to_prev_commit")
            /\ exit_path' = "prev_switch_failed"
            /\ pc' = "append"
            /\ UNCHANGED <<workspace, vstate>>
  /\ UNCHANGED <<wl, cov, rv, pom_xml, succeeded, tested_with, runs, files, java_home, progress, start_index, commit_idx,
                 success, new_pairs, old_pairs, new_coverage_count, old_coverage_count,
                 ti, appended, handed, loaded, resultsAtLoad, interrupted>>

\* lines 638-643
PrepareOld ==
  /\ pc = "prepare_old"
  /\ java_home' = modify_java_version(RepoPom(commit_id, "old"), java_home)
  /\ cmdLog' = cmdLog \o PrepareCmds("old")
  /\ old_coverage_count' = 0
  /\ ti' = 1
  /\ pc' = "old_loop"
  /\ UNCHANGED <<wl, cov, rv, pom_xml, succeeded, tested_with, runs, files, workspace, progress, start_index, commit_idx,
                 success, new_pairs, old_pairs, new_coverage_count, result, vstate,
                 exit_path, appended, handed, loaded, resultsAtLoad, interrupted>>

\* lines 645-649: parse the test identifier (no clean in this loop)
OldIterate ==
  /\ pc = "old_loop"
  /\ ti <= Len(commit_info.test_methods.old)
  /\ LET p == parse_method_id(commit_info.test_methods.old[ti])
     IN IF p.raised
        THEN /\ result' = ErrorResult(commit_id, "list index out of range")
             /\ exit_path' = "error"
             /\ pc' = "append"
             /\ UNCHANGED ti
        ELSE IF Unparsed(p)
        THEN /\ ti' = ti + 1
             /\ UNCHANGED <<pc, result, exit_path>>
        ELSE /\ pc' = "old_test"
             /\ UNCHANGED <<ti, result, exit_path>>
  /\ UNCHANGED <<wl, cov, rv, pom_xml, succeeded, tested_with, runs, files, workspace, java_home, progress, start_index,
                 commit_idx, success, new_pairs, old_pairs, new_coverage_count,
                 old_coverage_count, cmdLog, vstate, appended, handed, loaded, resultsAtLoad,
                 interrupted>>

\* lines 651-669
OldTest ==
  /\ pc = "old_test"
  /\ \E ok \in BOOLEAN, r \in 1..Len(Reports) :
       LET test_method_id == commit_info.test_methods.old[ti]
           covered_methods == covered_methods_of(ok, Reports[r], commit_info.focal_methods.old)
       IN /\ ~ok => r = workspace.report
          /\ workspace' = mvn_test(workspace, test_method_id, ok, r)
          /\ cmdLog' = cmdLog \o TestCmds("old", test_method_id, ok, covered_methods)
          /\ old_pairs' = old_pairs \o PairsOf(test_method_id, covered_methods)
          /\ old_coverage_count' = old_coverage_count + Len(covered_methods)
  /\ ti' = ti + 1
  /\ tested_with' = tested_with \cup {[sha |-> commit_id, rev |-> "old", java_home |-> java_home]}
  /\ pc' = "old_loop"
  /\ UNCHANGED <<wl, cov, rv, pom_xml, succeeded, runs, files, java_home, progress, start_index, commit_idx,
                 success, new_pairs, new_coverage_count, result, vstate, exit_path,
                 appended, handed, loaded, resultsAtLoad, interrupted>>

\* lines 671-696: the old-coverage gate and the success result
OldGate ==
  /\ pc = "old_loop"
  /\ ti > Len(commit_info.test_methods.old)
  /\ IF GateFails(old_coverage_count)
     THEN /\ result' = FailedResult(commit_id, "old_coverage_less_than_2")
          /\ vstate' = "OldTestsExecuted"
          /\ exit_path' = "old_gate"
     ELSE /\ result' = SuccessResult(commit_id, new_pairs, old_pairs)
          /\ vstate' = "Success"
          /\ exit_path' = "success"
  /\ pc' = "append"
  /\ UNCHANGED <<wl, cov, rv, pom_xml, succeeded, tested_with, runs, files, workspace, java_home, progress, start_index,
                 commit_idx, success, new_pairs, old_pairs, new_coverage_count,
                 old_coverage_count, ti, cmdLog, appended, handed, loaded, resultsAtLoad,
                 interrupted>>

\* lines 611-612, 631-632, 685-686, 696-697, 711-712: persist the result and
\* return; only the success result returns True
AppendResult ==
  /\ pc = "append"
  /\ resultsFile' = append_result(resultsFile, result)
  /\ success' = (result.status = "success")
  /\ appended' = Append(appended, result)
  /\ succeeded' = IF result.status = "success"
                  THEN succeeded \cup {result.commit} ELSE succeeded
  /\ pc' = "post"
  /\ UNCHANGED <<wl, cov, rv, pom_xml, tested_with, runs, progressFile, workspace, java_home, progress, start_index,
                 commit_idx, locals, cmdLog, vstate, exit_path, handed, loaded, resultsAtLoad,
                 interrupted>>

(***************************************************************************)
(* Process-level interruption and re-invocation.                            *)
(***************************************************************************)
InCommit ==
  pc \in {"psc_entry", "checkout_new", "prepare_new", "new_loop", "new_test",
          "checkout_old", "prepare_old", "old_loop", "old_test", "append", "post"}

Live == pc = "start" \/ pc = "loop" \/ InCommit

\* the process is killed between two file writes
Kill ==
  /\ Live
  /\ pc' = "dead"
  /\ interrupted' = IF InCommit THEN commit_id ELSE interrupted
  /\ MemoryReset
  /\ UNCHANGED <<wl, cov, rv, pom_xml, succeeded, tested_with, runs, files, workspace>>

\* the process is killed inside save_progress, after open(..., 'w') truncated
\* the file and before json.dump's output reached it (lines 48-49)
KillDuringSave ==
  /\ \/ pc = "post"
     \/ pc = "loop" /\ commit_idx >= total_commits
     \/ pc = "loop" /\ commit_idx < total_commits /\ "commit" \in DOMAIN commit_info
  /\ progressFile' = CorruptProgressFile
  /\ pc' = "dead"
  /\ interrupted' = IF pc = "post" THEN commit_id ELSE interrupted
  /\ MemoryReset
  /\ UNCHANGED <<wl, cov, rv, pom_xml, succeeded, tested_with, runs, resultsFile, workspace>>

\* the process is killed inside append_result: after the empty list was
\* created for a missing file (lines 77-80), or inside one of the two writes
KillDuringAppend ==
  /\ pc = "append"
  /\ \/ resultsFile' = CorruptResultsFile
     \/ /\ resultsFile.state = "absent"
        /\ resultsFile' = [state |-> "ok", data |-> <<>>]
  /\ pc' = "dead"
  /\ interrupted' = commit_id
  /\ MemoryReset
  /\ UNCHANGED <<wl, cov, rv, pom_xml, succeeded, tested_with, runs, progressFile, workspace>>

\* the driver is invoked again
Restart ==
  /\ pc \in {"dead", "done", "crashed"}
  /\ runs < MaxRuns
  /\ runs' = runs + 1
  /\ pc' = "start"
  /\ UNCHANGED <<wl, cov, rv, pom_xml, succeeded, tested_with, files, workspace, java_home, progress, start_index, commit_idx,
                 success, locals, history, handed, loaded, resultsAtLoad, interrupted>>

Next ==
  \/ MainStart
  \/ MainKeyError
  \/ PreCheckpoint
  \/ PostCheckpoint
  \/ Finalize
  \/ PscSkipProcessed
  \/ PscKeyError
  \/ PscReject
  \/ PscAdmit
  \/ CheckoutNew
  \/ PrepareNew
  \/ NewIterate
  \/ NewTest
  \/ NewGate
  \/ CheckoutOld
  \/ PrepareOld
  \/ OldIterate
  \/ OldTest
  \/ OldGate
  \/ AppendResult
  \/ Kill
  \/ KillDuringSave
  \/ KillDuringAppend
  \/ Restart

Spec == Init /\ [][Next]_vars

(***************************************************************************)
(* The Result Accumulator on its own: append_result applied to any          *)
(* collection it can have written, to a missing file and to a corrupt one.  *)
(***************************************************************************)
\* longest collection the accumulator starts from
MaxAcc == 2
\* append_result calls in a row
MaxAppends == 2

AccCommits == {"c1", "c2", "c3"}

AccResults ==
  UNION { { SuccessResult(c, <<Pair(T1, F1), Pair(T1, F2)>>, <<Pair(T2, F2), Pair(T2, F1)>>),
            FailedResult(c, "new_coverage_less_than_2"),
            ErrorResult(c, "list index out of range") } : c \in AccCommits }

\* the collections append_result writes hold one record per commit
AccCollections ==
  { col \in UNION { [1..n -> AccResults] : n \in 0..MaxAcc } :
      \A i, j \in 1..Len(col) : i # j => col[i].commit # col[j].commit }

InitAcc ==
  /\ wl = Len(WorkLists)
  /\ pc = "acc"
  /\ runs = 1
  /\ progressFile = AbsentProgressFile
  /\ resultsFile \in {AbsentResultsFile, CorruptResultsFile}
                     \cup { [state |-> "ok", data |-> col] : col \in AccCollections }
  /\ workspace = [head |-> [sha |-> "none", rev |-> "none"], report |-> NoReport,
                  ran |-> <<>>]
  /\ java_home = "unset"
  /\ progress = FreshProgress
  /\ start_index = 0
  /\ commit_idx = 0
  /\ success = FALSE
  /\ new_pairs = <<>>
  /\ old_pairs = <<>>
  /\ new_coverage_count = 0
  /\ old_coverage_count = 0
  /\ ti = 0
  /\ result = NoResult
  /\ cmdLog = <<>>
  /\ vstate = "Init"
  /\ exit_path = "none"
  /\ appended = <<>>
  /\ handed = <<>>
  /\ loaded = AbsentProgressFile
  /\ resultsAtLoad = AbsentResultsFile
  /\ interrupted = "none"
  /\ cov = CovIdle
  /\ pom_xml = PomIdle
  /\ succeeded = {}
  /\ tested_with = {}
  /\ rv = RevertIdle

\* dynamic_saver.append_result(project_name, r)
AccAppend ==
  /\ pc = "acc"
  /\ Len(appended) < MaxAppends
  /\ \E r \in AccResults :
       /\ result' = r
       /\ resultsFile' = append_result(resultsFile, r)
       /\ appended' = Append(appended, r)
  /\ UNCHANGED <<wl, cov, rv, pom_xml, succeeded, tested_with, pc, runs, progressFile, workspace, java_home, progress, start_index,
                 commit_idx, success, new_pairs, old_pairs, new_coverage_count,
                 old_coverage_count, ti, cmdLog, vstate, exit_path, handed, loaded,
                 resultsAtLoad, interrupted>>

NextAcc == AccAppend

SpecAcc == InitAcc /\ [][NextAcc]_vars

(***************************************************************************)
(* The Coverage Interpreter and the descriptor conversion on their own:     *)
(* check_jacoco_coverage applied to reports and candidate lists, and        *)
(* params_to_desc_prefix applied to parameter strings.                      *)
(***************************************************************************)
\* longest candidate list of a query
MaxCandidates == 2
\* most parameter types of a converted parameter string
MaxParams == 2

\* h(): no class separator; h: neither class separator nor parameter list;
\* a.G.g(): a second class
FNoClass == <<"h", "(", ")">>
FBare == <<"h">>
FOther == <<"a", ".", "G", ".", "g", "(", ")">>

CovIds == {F1, F2, FNoClass, FBare, FOther}

CovMethod(name, desc, counters) == [name |-> name, desc |-> desc, counters |-> counters]
CovCounter(type, covered) == [type |-> type, covered |-> covered]
CovReport(classes) == [exists |-> TRUE, parseable |-> TRUE, classes |-> classes]

\* reports as JaCoCo-style XML can hold them: counters in any order, a method
\* without counters, overloads, a class name that occurs twice
CovReports ==
  << [exists |-> FALSE, parseable |-> FALSE, classes |-> <<>>],
     [exists |-> TRUE, parseable |-> FALSE, classes |-> <<>>],
     CovReport(<<ClassF(5, 0)>>),
     CovReport(<<ClassF(0, 3)>>),
     CovReport(<< [name |-> <<"a", "/", "F">>,
                   methods |-> << CovMethod(<<"f">>, <<"(", "I", ")", "V">>,
                                            << CovCounter("LINE", 2),
                                               CovCounter("INSTRUCTION", 5) >>) >>] >>),
     CovReport(<< [name |-> <<"a", "/", "F">>,
                   methods |-> << CovMethod(<<"g">>, <<"(", "I", ")", "V">>,
                                            << CovCounter("INSTRUCTION", 5) >>) >>] >>),
     CovReport(<<ClassF(0, 0), ClassF(5, 3)>>),
     CovReport(<< [name |-> <<"a", "/", "F">>,
                   methods |-> << CovMethod(<<"f">>, <<"(", "I", ")", "V">>,
                                            << CovCounter("INSTRUCTION", 0),
                                               CovCounter("LINE", 0) >>),
                                  CovMethod(<<"f">>, <<"(", "I", "J", ")", "V">>,
                                            << CovCounter("INSTRUCTION", 4) >>) >>],
                  [name |-> <<"a", "/", "G">>,
                   methods |-> << CovMethod(<<"g">>, <<"(", ")", "V">>,
                                            << CovCounter("INSTRUCTION", 1) >>) >>] >>),
     CovReport(<< [name |-> <<"a", "/", "F">>,
                   methods |-> << CovMethod(<<"f">>, <<"(", "I", ")", "V">>, <<>>),
                                  CovMethod(<<"g">>, <<"(", ")", "V">>,
                                            << CovCounter("BRANCH", 2) >>) >>] >>) >>

CovQueries ==
  { [op |-> "query", report |-> r, input |-> ids, types |-> <<>>, called |-> FALSE,
     out |-> <<>>] :
      r \in 1..Len(CovReports), ids \in UNION { [1..n -> CovIds] : n \in 0..MaxCandidates } }

\* parameter types: the nine primitive names and two class names
CovTypes ==
  { <<"b", "o", "o", "l", "e", "a", "n">>,
    <<"b", "y", "t", "e">>,
    <<"c", "h", "a", "r">>,
    <<"d", "o", "u", "b", "l", "e">>,
    <<"f", "l", "o", "a", "t">>,
    <<"i", "n", "t">>,
    <<"l", "o", "n", "g">>,
    <<"s", "h", "o", "r", "t">>,
    <<"v", "o", "i", "d">>,
    <<"j", "a", "v", "a", ".", "l", "a", "n", "g", ".", "S", "t", "r", "i", "n", "g">>,
    <<"a", ".", "B">> }

\* sep.join(types)
RECURSIVE JoinWith(_, _)
JoinWith(types, sep) ==
  IF types = <<>> THEN <<>>
  ELSE IF Len(types) = 1 THEN Head(types)
  ELSE Head(types) \o sep \o JoinWith(Tail(types), sep)

\* parameter strings written "int,long" and "int, long"
CovConversions ==
  { [op |-> "convert", report |-> 0, input |-> JoinWith(ts, sep), types |-> ts,
     called |-> FALSE, out |-> <<>>] :
      ts \in UNION { [1..n -> CovTypes] : n \in 0..MaxParams },
      sep \in { <<",">>, <<",", " ">> } }

InitCov ==
  /\ wl = Len(WorkLists)
  /\ pc = "cov"
  /\ runs = 1
  /\ progressFile = AbsentProgressFile
  /\ resultsFile = AbsentResultsFile
  /\ workspace = [head |-> [sha |-> "none", rev |-> "none"], report |-> NoReport,
                  ran |-> <<>>]
  /\ java_home = "unset"
  /\ progress = FreshProgress
  /\ start_index = 0
  /\ commit_idx = 0
  /\ success = FALSE
  /\ new_pairs = <<>>
  /\ old_pairs = <<>>
  /\ new_coverage_count = 0
  /\ old_coverage_count = 0
  /\ ti = 0
  /\ result = NoResult
  /\ cmdLog = <<>>
  /\ vstate = "Init"
  /\ exit_path = "none"
  /\ appended = <<>>
  /\ handed = <<>>
  /\ loaded = AbsentProgressFile
  /\ resultsAtLoad = AbsentResultsFile
  /\ interrupted = "none"
  /\ cov \in CovQueries \cup CovConversions
  /\ pom_xml = PomIdle
  /\ succeeded = {}
  /\ tested_with = {}
  /\ rv = RevertIdle

CovFrame ==
  UNCHANGED <<wl, pc, runs, progressFile, resultsFile, workspace, java_home, progress,
              start_index, commit_idx, success, new_pairs, old_pairs, new_coverage_count,
              old_coverage_count, ti, result, cmdLog, vstate, exit_path, appended, handed,
              loaded, resultsAtLoad, interrupted, pom_xml, succeeded, tested_with,
              rv>>

\* check_jacoco_coverage(jacoco_xml_path, focal_methods)
CovQuery ==
  /\ pc = "cov"
  /\ cov.op = "query"
  /\ ~cov.called
  /\ cov' = [cov EXCEPT !.called = TRUE,
                        !.out = check_jacoco_coverage(CovReports[cov.report], cov.input)]
  /\ CovFrame

\* params_to_desc_prefix(params_str)
CovConvert ==
  /\ pc = "cov"
  /\ cov.op = "convert"
  /\ ~cov.called
  /\ cov' = [cov EXCEPT !.called = TRUE, !.out = params_to_desc_prefix(cov.input)]
  /\ CovFrame

NextCov == CovQuery \/ CovConvert

SpecCov == InitCov /\ [][NextCov]_vars

(***************************************************************************)
(* configure_jacoco_in_pom on its own: a pom.xml of the checkout, and the   *)
(* function applied to it again and again, as every run against the same    *)
(* checkout does (no run restores the file).                                *)
(***************************************************************************)
MaxPlugins == 2
MaxElsewhere == 1
MaxConfigure == 2

SeqsUpTo(S, n) == UNION {[1..k -> S] : k \in 0..n}

\* the pom.xml files of the projects: without <build>, with a <build> without
\* <plugins>, and with plugin blocks in the build's <plugins> and outside it
Poms ==
  { [has_build |-> b, has_plugins |-> p, plugins |-> ps, elsewhere |-> es] :
      b \in BOOLEAN, p \in BOOLEAN,
      ps \in SeqsUpTo(Blocks \ {"jacoco"}, MaxPlugins),
      es \in SeqsUpTo(Blocks \ {"jacoco"}, MaxElsewhere) }

WellFormedPom(doc) ==
  /\ doc.has_plugins => doc.has_build
  /\ doc.plugins # <<>> => doc.has_plugins
  \* blocks outside the first <plugins>: a pluginManagement or a profile's build
  /\ doc.elsewhere # <<>> => doc.has_build

InitPom ==
  /\ wl = Len(WorkLists)
  /\ pc = "pom"
  /\ runs = 1
  /\ progressFile = AbsentProgressFile
  /\ resultsFile = AbsentResultsFile
  /\ workspace = [head |-> [sha |-> "none", rev |-> "none"], report |-> NoReport,
                  ran |-> <<>>]
  /\ java_home = "unset"
  /\ progress = FreshProgress
  /\ start_index = 0
  /\ commit_idx = 0
  /\ success = FALSE
  /\ new_pairs = <<>>
  /\ old_pairs = <<>>
  /\ new_coverage_count = 0
  /\ old_coverage_count = 0
  /\ ti = 0
  /\ result = NoResult
  /\ cmdLog = <<>>
  /\ vstate = "Init"
  /\ exit_path = "none"
  /\ appended = <<>>
  /\ handed = <<>>
  /\ loaded = AbsentProgressFile
  /\ resultsAtLoad = AbsentResultsFile
  /\ interrupted = "none"
  /\ cov = CovIdle
  /\ succeeded = {}
  /\ tested_with = {}
  /\ rv = RevertIdle
  /\ \E doc \in Poms :
       /\ WellFormedPom(doc)
       /\ pom_xml = [doc |-> doc, original |-> doc, applied |-> 0]

\* configure_jacoco_in_pom(pom_path), the file written back at lines 498-499
Configure ==
  /\ pc = "pom"
  /\ pom_xml.applied < MaxConfigure
  /\ pom_xml' = [pom_xml EXCEPT !.doc = configure_jacoco_in_pom(@), !.applied = @ + 1]
  /\ UNCHANGED <<wl, pc, runs, progressFile, resultsFile, workspace, java_home, progress,
                 start_index, commit_idx, success, new_pairs, old_pairs,
                 new_coverage_count, old_coverage_count, ti, result, cmdLog, vstate,
                 exit_path, appended, handed, loaded, resultsAtLoad, interrupted, cov,
                 succeeded, tested_with, rv>>

NextPom == Configure

SpecPom == InitPom /\ [][NextPom]_vars

(***************************************************************************)
(* The batch driver re-invoked for as long as the project is not completed. *)
(* The process is killed finitely often: kills happen only while fewer than *)
(* MaxRuns invocations were made. A live process takes its next step, and   *)
(* a process that ended without completing the project is invoked again.    *)
(***************************************************************************)
\* the steps of the driver process itself
Program ==
  \/ MainStart \/ MainKeyError \/ PreCheckpoint \/ PostCheckpoint \/ Finalize
  \/ PscSkipProcessed \/ PscKeyError \/ PscReject \/ PscAdmit
  \/ CheckoutNew \/ PrepareNew \/ NewIterate \/ NewTest \/ NewGate
  \/ CheckoutOld \/ PrepareOld \/ OldIterate \/ OldTest \/ OldGate
  \/ AppendResult

KillLive == runs < MaxRuns /\ Kill
KillDuringSaveLive == runs < MaxRuns /\ KillDuringSave
KillDuringAppendLive == runs < MaxRuns /\ KillDuringAppend

\* the driver is invoked again after a kill or a crash; the count of
\* invocations stops at MaxRuns
Reinvoke ==
  /\ pc \in {"dead", "crashed"}
  /\ runs' = IF runs < MaxRuns THEN runs + 1 ELSE runs
  /\ pc' = "start"
  /\ UNCHANGED <<wl, cov, rv, pom_xml, succeeded, tested_with, files, workspace, java_home, progress,
                 start_index, commit_idx, success, locals, history, handed, loaded,
                 resultsAtLoad, interrupted>>

NextLive ==
  \/ MainStart
  \/ MainKeyError
  \/ PreCheckpoint
  \/ PostCheckpoint
  \/ Finalize
  \/ PscSkipProcessed
  \/ PscKeyError
  \/ PscReject
  \/ PscAdmit
  \/ CheckoutNew
  \/ PrepareNew
  \/ NewIterate
  \/ NewTest
  \/ NewGate
  \/ CheckoutOld
  \/ PrepareOld
  \/ OldIterate
  \/ OldTest
  \/ OldGate
  \/ AppendResult
  \/ KillLive
  \/ KillDuringSaveLive
  \/ KillDuringAppendLive
  \/ Reinvoke

SpecLive ==
  Init /\ [][NextLive]_vars /\ WF_vars(Program) /\ WF_vars(Reinvoke)

(***************************************************************************)
(* GitTestRevert.revert_test_changes (java-evolution-project/              *)
(* revert_branch.py) on its own: a work tree checked out at HEAD, and the   *)
(* changes of HEAD against HEAD^ as `git diff --name-status` lists them.    *)
(***************************************************************************)
MaxDiff == 3

UpperCase == <<"A","B","C","D","E","F","G","H","I","J","K","L","M",
               "N","O","P","Q","R","S","T","U","V","W","X","Y","Z">>
LowerCase == <<"a","b","c","d","e","f","g","h","i","j","k","l","m",
               "n","o","p","q","r","s","t","u","v","w","x","y","z">>

\* str.lower()
Lower(s) ==
  [i \in 1..Len(s) |->
     IF \E k \in 1..26 : UpperCase[k] = s[i]
     THEN LowerCase[CHOOSE k \in 1..26 : UpperCase[k] = s[i]]
     ELSE s[i]]

\* keyword in s
Contains(s, keyword) ==
  \E i \in 1..(Len(s) - Len(keyword) + 1) : SubSeq(s, i, i + Len(keyword) - 1) = keyword

\* line 17
test_keywords ==
  { <<"t","e","s","t">>, <<"s","p","e","c">>, <<"t","e","s","t","_">>,
    <<"_","t","e","s","t">>, <<".","t","e","s","t",".">>, <<".","s","p","e","c",".">> }

\* lines 58-61
is_test_file(file_path) ==
  \E keyword \in test_keywords : Contains(Lower(file_path), keyword)

\* the files of the repository
ATest == <<"A","T","e","s","t">>
BTest == <<"b","_","t","e","s","t">>
CSpec == <<"c",".","s","p","e","c",".","j">>
OldTestPath == <<"O","T","e","s","t">>
NewTestPath == <<"N","T","e","s","t">>
MainPath == <<"M","a","i","n">>
RevertPaths == {ATest, BTest, CSpec, OldTestPath, NewTestPath, MainPath}

\* the lines of `git diff HEAD^ HEAD --name-status`, as their tab-separated
\* fields: an added, a modified and a deleted test file, a renamed test file
\* (status R<similarity>, old path, new path), a modified source file
DiffLines ==
  { << <<"A">>, ATest >>,
    << <<"M">>, BTest >>,
    << <<"D">>, CSpec >>,
    << <<"R","1","0","0">>, OldTestPath, NewTestPath >>,
    << <<"M">>, MainPath >> }

\* the diffs of the commits: each file is changed at most once
Diffs ==
  { d \in SeqsUpTo(DiffLines, MaxDiff) : \A i, j \in 1..Len(d) : i # j => d[i] # d[j] }

\* the content of each path in HEAD^ and in HEAD, as the diff tells it
ParentTree(diff) ==
  [path \in RevertPaths |->
     IF \E i \in 1..Len(diff) :
          /\ diff[i][2] = path
          /\ diff[i][1][1] \in {"M", "D", "R"}
     THEN "parent" ELSE "absent"]

HeadTree(diff) ==
  [path \in RevertPaths |->
     IF \E i \in 1..Len(diff) :
          \/ diff[i][2] = path /\ diff[i][1][1] \in {"A", "M"}
          \/ Len(diff[i]) > 2 /\ diff[i][3] = path
     THEN "head" ELSE "absent"]

\* lines 69-86: (status, filepath) = (parts[0], parts[1]) of every line
get_diff_files(diff) ==
  [i \in 1..Len(diff) |-> [status |-> diff[i][1], filepath |-> diff[i][2]]]

\* lines 88-97
get_test_files_from_diff(diff) ==
  SelectSeq(get_diff_files(diff), LAMBDA f : is_test_file(f.filepath))

InitRevert ==
  /\ wl = Len(WorkLists)
  /\ pc = "revert_start"
  /\ runs = 1
  /\ progressFile = AbsentProgressFile
  /\ resultsFile = AbsentResultsFile
  /\ workspace = [head |-> [sha |-> "none", rev |-> "none"], report |-> NoReport,
                  ran |-> <<>>]
  /\ java_home = "unset"
  /\ progress = FreshProgress
  /\ start_index = 0
  /\ commit_idx = 0
  /\ success = FALSE
  /\ new_pairs = <<>>
  /\ old_pairs = <<>>
  /\ new_coverage_count = 0
  /\ old_coverage_count = 0
  /\ ti = 0
  /\ result = NoResult
  /\ cmdLog = <<>>
  /\ vstate = "Init"
  /\ exit_path = "none"
  /\ appended = <<>>
  /\ handed = <<>>
  /\ loaded = AbsentProgressFile
  /\ resultsAtLoad = AbsentResultsFile
  /\ interrupted = "none"
  /\ cov = CovIdle
  /\ pom_xml = PomIdle
  /\ succeeded = {}
  /\ tested_with = {}
  /\ \E diff \in Diffs :
       rv = [diff |-> diff, tree |-> HeadTree(diff), test_files |-> <<>>, i |-> 0,
             returned |-> "none"]

RevertFrame ==
  UNCHANGED <<wl, runs, progressFile, resultsFile, workspace, java_home, progress,
              start_index, commit_idx, success, new_pairs, old_pairs, new_coverage_count,
              old_coverage_count, ti, result, cmdLog, vstate, exit_path, appended, handed,
              loaded, resultsAtLoad, interrupted, cov, pom_xml, succeeded, tested_with>>

\* lines 120-124: no test file in the diff, return True
RevertNothing ==
  /\ pc = "revert_start"
  /\ get_test_files_from_diff(rv.diff) = <<>>
  /\ rv' = [rv EXCEPT !.returned = "True"]
  /\ pc' = "revert_done"
  /\ RevertFrame

\* lines 120-131: enter the loop over the test files
RevertStart ==
  /\ pc = "revert_start"
  /\ get_test_files_from_diff(rv.diff) # <<>>
  /\ rv' = [rv EXCEPT !.test_files = get_test_files_from_diff(rv.diff), !.i = 1]
  /\ pc' = "revert_loop"
  /\ RevertFrame

\* lines 131-157: one test file; os.remove and git checkout can fail, and the
\* except of line 155 then returns False
RevertFile ==
  /\ pc = "revert_loop"
  /\ rv.i <= Len(rv.test_files)
  /\ LET status == rv.test_files[rv.i].status
         filepath == rv.test_files[rv.i].filepath
         next == [rv EXCEPT !.i = @ + 1]
         failed == [rv EXCEPT !.returned = "False"]
     IN \E ok \in BOOLEAN :
          IF status = <<"A">>
          THEN \* lines 133-137
               IF rv.tree[filepath] # "absent"
               THEN IF ok
                    THEN rv' = [next EXCEPT !.tree[filepath] = "absent"] /\ pc' = pc
                    ELSE rv' = failed /\ pc' = "revert_done"
               ELSE rv' = next /\ pc' = pc
          ELSE IF status \in {<<"M">>, <<"D">>}
          THEN \* lines 138-140
               IF ok
               THEN /\ rv' = [next EXCEPT !.tree[filepath] = ParentTree(rv.diff)[filepath]]
                    /\ pc' = pc
               ELSE rv' = failed /\ pc' = "revert_done"
          ELSE IF IndexOf(status, "R") # 0
          THEN \* lines 143-152: status holds no tab, so the split has one piece
               IF Len(Split(status, "\t")) > 2
               THEN LET old_file == Split(status, "\t")[2]
                        new_file == Split(status, "\t")[3]
                    IN IF ok
                       THEN /\ rv' = [next EXCEPT !.tree[old_file] = ParentTree(rv.diff)[old_file],
                                                  !.tree[new_file] = "absent"]
                            /\ pc' = pc
                       ELSE rv' = failed /\ pc' = "revert_done"
               ELSE rv' = next /\ pc' = pc
          ELSE \* line 154: unknown status, the file is skipped
               rv' = next /\ pc' = pc
  /\ RevertFrame

\* line 159
RevertReturn ==
  /\ pc = "revert_loop"
  /\ rv.i > Len(rv.test_files)
  /\ rv' = [rv EXCEPT !.returned = "True"]
  /\ pc' = "revert_done"
  /\ RevertFrame

NextRevert == RevertNothing \/ RevertStart \/ RevertFile \/ RevertReturn

SpecRevert == InitRevert /\ [][NextRevert]_vars

(***************************************************************************)
(* Properties.                                                              *)
(***************************************************************************)
Last(seq) == seq[Len(seq)]

\* the records of one commit in the persisted collection, in file order
RecordsFor(file, sha) == SelectSeq(existing_results(file), LAMBDA r : r.commit = sha)

Range(seq) == {seq[i] : i \in 1..Len(seq)}

\* the (test, focal) edges the command history of the current invocation
\* shows for one revision: per passing test run, in run order, the focal
\* methods the Coverage Interpreter returned for it
RECURSIVE ObservedPairs(_, _)
ObservedPairs(log, rev) ==
  IF log = <<>> THEN <<>>
  ELSE LET e == Head(log)
           here == IF e.cmd = "mvn test" /\ e.rev = rev /\ e.ok
                   THEN [i \in 1..Len(e.covered) |->
                           [test_method_id |-> e.arg, focal_method_id |-> e.covered[i]]]
                   ELSE <<>>
       IN here \o ObservedPairs(Tail(log), rev)

\* C1: append_result is an idempotent upsert: appending r2 right after r1,
\* both for the same commit, leaves the length of the collection as it was
\* after r1, and the one record of that commit is r2.
C1_IdempotentUpsert ==
  [][ ( /\ appended # <<>>
        /\ appended' = Append(appended, result')
        /\ result'.commit = Last(appended).commit )
      => ( /\ resultsFile'.state = "ok"
           /\ Len(resultsFile'.data) = Len(resultsFile.data)
           /\ RecordsFor(resultsFile', result'.commit) = <<result'>> ) ]_vars

\* r1 was replaced in place by a different r2, ahead of another commit's record
C1_Witness ==
  /\ pc = "acc"
  /\ Len(appended) = 2
  /\ appended[1].commit = appended[2].commit
  /\ appended[1] # appended[2]
  /\ Len(resultsFile.data) = 2
  /\ resultsFile.data[1] = appended[2]

\* C2: in every reachable state the persisted results collection holds at
\* most one record per commit identifier, whatever appends, re-attempts,
\* kills and restarts led to it.
C2_NoDuplicateCommits ==
  resultsFile.state = "ok" =>
    \A i, j \in 1..Len(resultsFile.data) :
       i # j => resultsFile.data[i].commit # resultsFile.data[j].commit

\* a re-attempt appended a result for a commit whose record the run found
\* already in the file
C2_Witness ==
  /\ pc = "post"
  /\ runs > 1
  /\ appended # <<>>
  /\ RecordsFor(resultsAtLoad, commit_id) # <<>>
  /\ Len(resultsFile.data) > 1

\* C3: a run that finds a progress record with cursor k hands commit k to
\* the verifier first, hands over no commit below k, runs no external
\* command for a commit below k, and leaves the result records of the
\* commits below k as it found them.
C3_Resumability ==
  (loaded.state = "ok" /\ pc \notin {"start", "acc"}) =>
    LET k == loaded.data.current_index IN
    /\ handed # <<>> => handed[1] = k
    /\ \A i \in 1..Len(handed) : handed[i] >= k
    /\ (InCommit /\ cmdLog # <<>>) => commit_idx >= k
    /\ (resultsFile.state = "ok" /\ resultsAtLoad.state = "ok") =>
         \A i \in 1..k :
            (i <= total_commits /\ "commit" \in DOMAIN commits_data[i]) =>
               RecordsFor(resultsFile, commits_data[i].commit.sha1)
                 = RecordsFor(resultsAtLoad, commits_data[i].commit.sha1)

\* a run resumed at cursor 1, found the record of commit 0 and has persisted
\* a result for commit 1
C3_Witness ==
  /\ pc = "post"
  /\ loaded.state = "ok"
  /\ loaded.data.current_index = 1
  /\ handed = <<1>>
  /\ appended # <<>>
  /\ RecordsFor(resultsAtLoad, commits_data[1].commit.sha1) # <<>>

\* external work of the verifier is under way or done for the current commit
VerifierAtWork ==
  pc \in {"checkout_new", "prepare_new", "new_loop", "new_test", "checkout_old",
          "prepare_old", "old_loop", "old_test", "append"}

SizesAdmissible(ci) ==
  \A l \in {ci.test_methods.new, ci.focal_methods.new,
            ci.test_methods.old, ci.focal_methods.old} : Len(l) >= 1 /\ Len(l) <= 39

\* C5 (as claimed): after a kill between the two checkpoints of commit k,
\* the re-attempt of k leaves exactly one record for k and that record is
\* the one the re-attempt produced.  Stated for commits that pass the
\* admission filter.
C5_ReattemptOverwrites ==
  ( /\ pc = "post"
    /\ interrupted = commit_id
    /\ exit_path # "skipped"
    /\ SizesAdmissible(commit_info) )
  => /\ resultsFile.state = "ok"
     /\ appended # <<>>
     /\ RecordsFor(resultsFile, commit_id) = appended

\* C6: a commit with a list of 40 or more entries, or an empty list, is
\* rejected before any external command, with no record written and the
\* checkout untouched; a commit whose four lists have 1..39 entries is
\* admitted.
C6_AdmissionFilter ==
  /\ []( ( /\ InCommit
           /\ HasMethodFields(commit_info)
           /\ (cmdLog # <<>> \/ appended # <<>> \/ VerifierAtWork) )
         => SizesAdmissible(commit_info) )
  /\ [][ ( /\ pc = "psc_entry"
           /\ pc' \notin {"dead", "crashed"}
           /\ ~is_commit_processed(progressFile, commit_id) )
         => IF SizesAdmissible(commit_info)
            THEN pc' = "checkout_new"
            ELSE /\ pc' = "post"
                 /\ ~success'
                 /\ UNCHANGED <<resultsFile, workspace, cmdLog, appended>> ]_vars

\* a commit with 40 new focal methods was rejected on a pristine checkout
C6_Witness ==
  /\ pc = "post"
  /\ exit_path = "rejected"
  /\ Len(commit_info.focal_methods.new) = 40
  /\ cmdLog = <<>>
  /\ workspace.head.sha = "none"

\* the new-revision loop of the current invocation ran to its end
NewPhaseDone == vstate \notin {"Init", "SwitchedToNew"}

\* the old-revision loop of the current invocation ran to its end
OldPhaseDone == vstate \in {"OldTestsExecuted", "Success"}

\* C7: when the new-revision phase ends with fewer than 2 distinct covered
\* pairs, the commit is persisted as failed with reason
\* new_coverage_less_than_2 and empty pair lists, and neither the parent
\* checkout nor any old-revision command has run.
C7_NewGate ==
  ( /\ pc = "post"
    /\ exit_path # "skipped"
    /\ NewPhaseDone
    /\ Cardinality(Range(ObservedPairs(cmdLog, "new"))) < 2 )
  => /\ ~success
     /\ RecordsFor(resultsFile, commit_id)
          = << [commit |-> commit_id, new_pairs |-> <<>>, old_pairs |-> <<>>,
                status |-> "failed", reason |-> "new_coverage_less_than_2"] >>
     /\ \A i \in 1..Len(cmdLog) : cmdLog[i].rev # "old"
     /\ workspace.head = [sha |-> commit_id, rev |-> "new"]

\* the new phase ended with exactly one covered pair
C7_Witness ==
  /\ pc = "post"
  /\ exit_path = "new_gate"
  /\ Len(ObservedPairs(cmdLog, "new")) = 1
  /\ resultsFile.state = "ok"

\* C8: the invocation persists a success record exactly when both phases
\* ran to their end with at least 2 pairs each; its pair lists are then the
\* observed tuples in observation order, over passing tests and focal
\* methods of the commit's lists; failed and error records have empty lists.
C8_SuccessVerdict ==
  /\ (pc = "post" /\ exit_path # "skipped") =>
       LET obs_new == ObservedPairs(cmdLog, "new")
           obs_old == ObservedPairs(cmdLog, "old")
           persisted_success ==
             /\ appended # <<>>
             /\ Last(appended).status = "success"
             /\ RecordsFor(resultsFile, commit_id) = <<Last(appended)>>
       IN /\ persisted_success
             <=> (NewPhaseDone /\ OldPhaseDone /\ Len(obs_new) >= 2 /\ Len(obs_old) >= 2)
          /\ persisted_success =>
               /\ success
               /\ Last(appended).new_pairs = obs_new
               /\ Last(appended).old_pairs = obs_old
               /\ \A q \in Range(obs_new) :
                     /\ q.test_method_id \in Range(commit_info.test_methods.new)
                     /\ q.focal_method_id \in Range(commit_info.focal_methods.new)
               /\ \A q \in Range(obs_old) :
                     /\ q.test_method_id \in Range(commit_info.test_methods.old)
                     /\ q.focal_method_id \in Range(commit_info.focal_methods.old)
  /\ resultsFile.state = "ok" =>
       \A i \in 1..Len(resultsFile.data) :
          resultsFile.data[i].status \in {"failed", "error"} =>
             resultsFile.data[i].new_pairs = <<>> /\ resultsFile.data[i].old_pairs = <<>>

\* a success with three new pairs from two tests and two old pairs
C8_Witness ==
  /\ pc = "post"
  /\ exit_path = "success"
  /\ Len(ObservedPairs(cmdLog, "new")) = 3
  /\ Len(RecordsFor(resultsFile, commit_id)[1].old_pairs) = 2

\* C9 (as claimed): no exception of one commit's processing escapes the
\* commit boundary, so the driver is never ended by one.
C9_NoCommitHaltsBatch == pc # "crashed"

\* C10 (as claimed): every invocation that processed its commit has handed
\* exactly one result, with status success, failed or error, to the upsert
\* by the time it returns.  Stated for commits that pass the admission
\* filter.
C10_OneResultPerInvocation ==
  ( /\ pc = "post"
    /\ exit_path # "skipped"
    /\ SizesAdmissible(commit_info) )
  => /\ Len(appended) = 1
     /\ appended[1].status \in {"success", "failed", "error"}
     /\ RecordsFor(resultsFile, commit_id) = appended

\* C11: save_progress overwrites the persisted record atomically: whenever
\* the process can be interrupted, the progress file is either not yet
\* written or a complete record (the previous one or the new one), so
\* load_progress never falls back to the fresh not_started record with
\* cursor 0 because of an interrupted save.
C11_AtomicSave == progressFile.state \in {"absent", "ok"}

\* C12: load_progress never raises: on every progress file the driver can
\* meet it returns the persisted record when the file is readable, and the
\* fresh record (status not_started, no processed commit, cursor 0) when the
\* file is missing or corrupt; the load at the start of a run always brings
\* the driver into its loop and leaves the file as it was.
C12_LoadNeverRaises ==
  /\ [](/\ progressFile.state = "ok" => load_progress(progressFile) = progressFile.data
        /\ progressFile.state \in {"absent", "corrupt"} =>
             /\ load_progress(progressFile).status = "not_started"
             /\ load_progress(progressFile).processed_commits = <<>>
             /\ load_progress(progressFile).current_index = 0)
  /\ [][ (pc = "start" /\ pc' \notin {"start", "dead"}) =>
           /\ pc' = "loop"
           /\ progressFile' = progressFile
           /\ loaded' = progressFile
           /\ progress' = IF load_progress(progressFile).status = "not_started"
                          THEN [FreshProgress EXCEPT !.status = "running",
                                                     !.total_commits = total_commits]
                          ELSE progressFile.data ]_vars

\* a run that found the progress file corrupt starts the project afresh, and
\* a later one reads back what was saved
C12_Witness ==
  /\ pc = "loop"
  /\ runs = 2
  /\ loaded.state = "corrupt"
  /\ progressFile = loaded
  /\ progress.status = "running"
  /\ progress.current_index = 0

Completed(file) == file.state = "ok" /\ file.data.status = "completed"

\* C13: project lifecycle.  A project found not_started becomes running; the
\* persisted status becomes completed only by the step that finds the cursor
\* past the end of the work list; whenever the persisted status is completed
\* every commit of the work list is in processed_commits (so it was handed to
\* the verifier); and a driver run that finds the project completed runs no
\* external command and persists no result for any of its commits.
C13_Lifecycle ==
  /\ [](Completed(progressFile) =>
          \A i \in 1..total_commits :
             commits_data[i].commit.sha1 \in Range(progressFile.data.processed_commits))
  /\ []((Completed(loaded) /\ pc \notin {"start", "acc"}) =>
          /\ pc \in {"loop", "psc_entry", "post"}
          /\ cmdLog = <<>>
          /\ appended = <<>>
          /\ resultsFile = resultsAtLoad)
  /\ [][ /\ (pc = "start" /\ pc' = "loop"
              /\ load_progress(progressFile).status = "not_started") =>
                progress'.status = "running"
         /\ (Completed(progressFile') /\ ~Completed(progressFile)) =>
                /\ pc = "loop"
                /\ commit_idx >= total_commits
                /\ progress.status = "running"
                /\ pc' = "done" ]_vars

\* the run after a completed one: the last commit is handed over again and
\* skipped as already processed
C13_Witness ==
  /\ pc = "post"
  /\ runs = 2
  /\ Completed(loaded)
  /\ exit_path = "skipped"
  /\ total_commits >= 2
  /\ commit_idx = total_commits - 1

\* a is b with some of its positions left out
RECURSIVE IsSubSeq(_, _)
IsSubSeq(a, b) ==
  \/ a = <<>>
  \/ /\ b # <<>>
     /\ \/ Head(a) = Head(b) /\ IsSubSeq(Tail(a), Tail(b))
        \/ IsSubSeq(a, Tail(b))

Queried == cov.op = "query" /\ cov.called

\* the <class> elements of the queried report
QueriedClasses ==
  IF CovReports[cov.report].exists /\ CovReports[cov.report].parseable
  THEN CovReports[cov.report].classes
  ELSE <<>>

\* the methods of the first class entry named as the candidate's class with
\* '.' replaced by '/'; none when there is no such class
FirstClassMethods(classes, p) ==
  LET hits == {c \in 1..Len(classes) : classes[c].name = DotToSlash(p.class_name)}
  IN IF hits = {} THEN <<>>
     ELSE classes[CHOOSE c \in hits : \A d \in hits : c <= d].methods

\* the entry has an INSTRUCTION counter that reports covered units
InstructionCovered(method) ==
  \E c \in 1..Len(method.counters) :
     method.counters[c].type = "INSTRUCTION" /\ method.counters[c].covered >= 1

\* C14: coverage matching soundness.  The returned list is the candidate
\* list with some positions left out (order kept, no candidate more often
\* than it was asked for), and every returned candidate has, in the first
\* class entry named as its class with '.' replaced by '/', a method entry
\* of exactly its method name whose descriptor starts with the parameter
\* prefix of its parameter list ("()" for an empty list) and whose
\* INSTRUCTION counter reports covered > 0.
C14_MatchingSoundness ==
  Queried =>
    /\ IsSubSeq(cov.out, cov.input)
    /\ \A k \in 1..Len(cov.out) :
         LET p == parse_method_id(cov.out[k])
             methods == FirstClassMethods(QueriedClasses, p)
         IN /\ ~p.raised
            /\ ~Unparsed(p)
            /\ \E m \in 1..Len(methods) :
                  /\ methods[m].name = p.method_name
                  /\ StartsWith(methods[m].desc, params_to_desc_prefix(p.params_str))
                  /\ InstructionCovered(methods[m])

\* the method entries the interpreter takes for the candidate: in the first
\* class entry of its class, those of its method name whose descriptor
\* starts with the prefix the interpreter matches with
MatchingEntries(classes, p) ==
  SelectSeq(FirstClassMethods(classes, p),
            LAMBDA m : m.name = p.method_name /\ StartsWith(m.desc, params_prefix(p.params_str)))

\* every candidate of the query is an identifier parse_method_id splits
AllParsed ==
  \A k \in 1..Len(cov.input) :
     ~parse_method_id(cov.input[k]).raised /\ ~Unparsed(parse_method_id(cov.input[k]))

\* C15: counter selection.  A candidate is returned if and only if one of
\* its matching method entries has a counter of type INSTRUCTION with a
\* covered count of at least 1, whatever the number of counters of the entry
\* and the position of the INSTRUCTION counter among them.
C15_CounterSelection ==
  (Queried /\ AllParsed) =>
    \A k \in 1..Len(cov.input) :
       LET entries == MatchingEntries(QueriedClasses, parse_method_id(cov.input[k]))
       IN cov.input[k] \in Range(cov.out)
            <=> \E m \in 1..Len(entries) : InstructionCovered(entries[m])

\* C16: empty parameter list.  A returned candidate whose parameter list is
\* empty has, in the first class entry of its class, a method entry of its
\* name whose descriptor starts with "()" and whose INSTRUCTION counter
\* reports covered units: an overload that takes parameters never makes it
\* covered.
C16_EmptyParameterList ==
  Queried =>
    \A k \in 1..Len(cov.out) :
       LET p == parse_method_id(cov.out[k])
           methods == FirstClassMethods(QueriedClasses, p)
       IN p.params_str = <<>> =>
            \E m \in 1..Len(methods) :
               /\ methods[m].name = p.method_name
               /\ StartsWith(methods[m].desc, <<"(", ")">>)
               /\ InstructionCovered(methods[m])

\* the part of the identifier before its parameter list holds a '.'
HasClassSeparator(method_id) == LastIndexOf(Split(method_id, "(")[1], ".") # 0

\* C17: malformed identifier tolerance.  Identifiers without class
\* separator are skipped without an exception: the interpreter returns for
\* a candidate list what it returns for the list without those identifiers.
C17_MalformedTolerance ==
  Queried =>
    cov.out = check_jacoco_coverage(CovReports[cov.report],
                                    SelectSeq(cov.input, HasClassSeparator))

\* the descriptor of one parameter type: the single-letter code of a
\* primitive type, 'L' + the type with '.' replaced by '/' + ';' otherwise
TypeDescriptor(T) ==
  CASE T = <<"b", "o", "o", "l", "e", "a", "n">> -> <<"Z">>
    [] T = <<"b", "y", "t", "e">> -> <<"B">>
    [] T = <<"c", "h", "a", "r">> -> <<"C">>
    [] T = <<"d", "o", "u", "b", "l", "e">> -> <<"D">>
    [] T = <<"f", "l", "o", "a", "t">> -> <<"F">>
    [] T = <<"i", "n", "t">> -> <<"I">>
    [] T = <<"l", "o", "n", "g">> -> <<"J">>
    [] T = <<"s", "h", "o", "r", "t">> -> <<"S">>
    [] T = <<"v", "o", "i", "d">> -> <<"V">>
    [] OTHER -> <<"L">> \o [i \in 1..Len(T) |-> IF T[i] = "." THEN "/" ELSE T[i]] \o <<";">>

RECURSIVE DescriptorsOf(_)
DescriptorsOf(types) ==
  IF types = <<>> THEN <<>> ELSE TypeDescriptor(Head(types)) \o DescriptorsOf(Tail(types))

Converted == cov.op = "convert" /\ cov.called

\* C18: descriptor conversion.  params_to_desc_prefix maps a
\* comma-separated list of parameter types to '(' + the descriptors of the
\* types, in order + ')'; "int,java.lang.String" gives
\* "(ILjava/lang/String;)" and the empty string gives "()".
C18_DescriptorConversion ==
  Converted =>
    /\ cov.out = <<"(">> \o DescriptorsOf(cov.types) \o <<")">>
    /\ cov.input = <<"i", "n", "t", ",", "j", "a", "v", "a", ".", "l", "a", "n", "g", ".", "S", "t", "r", "i", "n", "g">> =>
         cov.out = <<"(", "I", "L", "j", "a", "v", "a", "/", "l", "a", "n", "g", "/", "S", "t", "r", "i", "n", "g", ";", ")">>
    /\ cov.input = <<>> => cov.out = <<"(", ")">>

\* "int,java.lang.String" was converted
C18_Witness ==
  /\ Converted
  /\ cov.input = <<"i", "n", "t", ",", "j", "a", "v", "a", ".", "l", "a", "n", "g", ".", "S", "t", "r", "i", "n", "g">>
  /\ cov.out = <<"(", "I", "L", "j", "a", "v", "a", "/", "l", "a", "n", "g", "/", "S", "t", "r", "i", "n", "g", ";", ")">>

\* C19: old-coverage gate.  An invocation whose old-revision loop ran to its
\* end has passed the new gate; when the old revision showed fewer than 2
\* covered pairs the commit is persisted as failed with reason
\* old_coverage_less_than_2 and the driver is told False, and with 2 or more
\* (the threshold of the new gate) it is persisted as success.
C19_OldGate ==
  (pc = "post" /\ exit_path # "skipped" /\ OldPhaseDone) =>
    /\ Len(ObservedPairs(cmdLog, "new")) >= 2
    /\ resultsFile.state = "ok"
    /\ IF Len(ObservedPairs(cmdLog, "old")) < 2
       THEN /\ ~success
            /\ RecordsFor(resultsFile, commit_id) =
                 << [commit |-> commit_id, new_pairs |-> <<>>, old_pairs |-> <<>>,
                     status |-> "failed", reason |-> "old_coverage_less_than_2"] >>
       ELSE /\ success
            /\ Len(RecordsFor(resultsFile, commit_id)) = 1
            /\ RecordsFor(resultsFile, commit_id)[1].status = "success"

\* a commit with two covered pairs in the new revision and one in the old
C19_Witness ==
  /\ pc = "post"
  /\ exit_path = "old_gate"
  /\ Len(ObservedPairs(cmdLog, "new")) >= 2
  /\ Len(ObservedPairs(cmdLog, "old")) = 1
  /\ resultsFile.state = "ok"
  /\ ~success

\* the position of a verifier state in the order of the steps
VRank(st) ==
  CASE st = "Init" -> 0
    [] st = "SwitchedToNew" -> 1
    [] st = "NewTestsExecuted" -> 2
    [] st = "NewThresholdChecked" -> 3
    [] st = "SwitchedToOld" -> 4
    [] st = "OldTestsExecuted" -> 5
    [] st = "Success" -> 6

PrepareSteps == {"configure_jacoco_in_pom", "modify_java_version", "modify_parent_version"}

\* C20: verifier state order.  Within one invocation the external commands
\* come in the order checkout(commit), preparation, new-revision tests,
\* checkout(parent of the commit), preparation, old-revision tests: every
\* test run of a revision comes after the successful checkout of that
\* revision and after the three preparation steps that follow the checkout;
\* no command on the commit comes after one on its parent; the parent is
\* checked out only after the new revision showed 2 covered pairs; each
\* revision is checked out once; a failed checkout is the last command of
\* the invocation; and the verifier's state only moves forward.
C20_VerifierOrder ==
  /\ [](InCommit =>
          /\ \A i \in 1..Len(cmdLog) :
               cmdLog[i].cmd = "mvn test" =>
                 \E j \in 1..(i - 1) :
                    /\ cmdLog[j].cmd = "git reset --hard"
                    /\ cmdLog[j].rev = cmdLog[i].rev
                    /\ cmdLog[j].arg = commit_id
                    /\ cmdLog[j].ok
                    /\ \A step \in PrepareSteps :
                         \E k \in (j + 1)..(i - 1) :
                            cmdLog[k].cmd = step /\ cmdLog[k].rev = cmdLog[i].rev
          /\ \A i, j \in 1..Len(cmdLog) :
               (i < j /\ cmdLog[i].rev = "old") => cmdLog[j].rev = "old"
          /\ \A i, j \in 1..Len(cmdLog) :
               (cmdLog[i].cmd = "git reset --hard" /\ cmdLog[j].cmd = "git reset --hard"
                  /\ cmdLog[i].rev = cmdLog[j].rev) => i = j
          /\ \A i \in 1..Len(cmdLog) :
               (cmdLog[i].cmd = "git reset --hard" /\ cmdLog[i].rev = "old") =>
                 Len(ObservedPairs(SubSeq(cmdLog, 1, i - 1), "new")) >= 2
          /\ \A i \in 1..Len(cmdLog) :
               (cmdLog[i].cmd = "git reset --hard" /\ ~cmdLog[i].ok) => i = Len(cmdLog)
          /\ cmdLog # <<>> =>
               cmdLog[1].cmd = "git reset --hard" /\ cmdLog[1].rev = "new")
  /\ [][ /\ vstate' # vstate => (vstate' = "Init" \/ VRank(vstate') > VRank(vstate))
         /\ (InCommit /\ cmdLog # <<>> /\ ~Last(cmdLog).ok
               /\ Last(cmdLog).cmd = "git reset --hard") => cmdLog' \in {cmdLog, <<>>} ]_vars

\* a commit that went through every step
C20_Witness ==
  /\ pc = "post"
  /\ exit_path = "success"
  /\ vstate = "Success"
  /\ \E i \in 1..Len(cmdLog) :
        cmdLog[i].cmd = "mvn test" /\ cmdLog[i].rev = "old" /\ cmdLog[i].ok

\* the tests the command history shows as run for one revision, in run order
RECURSIVE TestsRun(_, _)
TestsRun(log, rev) ==
  IF log = <<>> THEN <<>>
  ELSE (IF Head(log).cmd = "mvn test" /\ Head(log).rev = rev THEN <<Head(log).arg>> ELSE <<>>)
       \o TestsRun(Tail(log), rev)

\* the identifiers of a test list that name a class and a method
Runnable(test_methods) ==
  SelectSeq(test_methods, LAMBDA id : ~Unparsed(parse_method_id(id)))

\* C21: per-test failure isolation.  A test run that exits non-zero adds no
\* pair and no coverage count, is followed by no coverage query, and leaves
\* the verifier in its loop at the next test; a coverage query is made only
\* right after a passing run of the same test; and a phase that ran to its
\* end has run every test of its list that names a class and a method,
\* failed runs or not.
C21_TestFailureIsolation ==
  /\ [][ (pc \in {"new_test", "old_test"} /\ pc' \in {"new_loop", "old_loop"}
            /\ ~Last(cmdLog').ok) =>
           /\ cmdLog' = Append(cmdLog, Last(cmdLog'))
           /\ Last(cmdLog').cmd = "mvn test"
           /\ UNCHANGED <<new_pairs, old_pairs, new_coverage_count, old_coverage_count,
                          result, exit_path, vstate, resultsFile>>
           /\ ti' = ti + 1
           /\ pc' = IF pc = "new_test" THEN "new_loop" ELSE "old_loop" ]_vars
  /\ [](InCommit =>
          \A i \in 1..Len(cmdLog) :
             cmdLog[i].cmd = "check_jacoco_coverage" =>
               /\ i > 1
               /\ cmdLog[i - 1].cmd = "mvn test"
               /\ cmdLog[i - 1].ok
               /\ cmdLog[i - 1].arg = cmdLog[i].arg)
  /\ []((pc = "post" /\ exit_path # "skipped" /\ NewPhaseDone) =>
          TestsRun(cmdLog, "new") = Runnable(commit_info.test_methods.new))
  /\ []((pc = "post" /\ exit_path # "skipped" /\ OldPhaseDone) =>
          TestsRun(cmdLog, "old") = Runnable(commit_info.test_methods.old))

\* a commit that succeeded although one of its test runs failed
C21_Witness ==
  /\ pc = "post"
  /\ exit_path = "success"
  /\ success
  /\ \E i \in 1..Len(cmdLog) : cmdLog[i].cmd = "mvn test" /\ ~cmdLog[i].ok

\* C22: per-test artifact isolation.  In both phases a single test is run
\* on a checkout whose target/ holds no build or report artifact of an
\* earlier test, and the report a coverage query reads was produced by a
\* build in which only the queried test ran.
C22_ArtifactIsolation ==
  /\ pc \in {"new_test", "old_test"} =>
       workspace.ran = <<>> /\ workspace.report = NoReport
  /\ (InCommit /\ cmdLog # <<>> /\ Last(cmdLog).cmd = "check_jacoco_coverage") =>
       workspace.ran = <<Last(cmdLog).arg>>

Unusable(report) == ~report.exists \/ ~report.parseable

\* C23: Coverage Interpreter failure mode.  For a report file that is
\* missing or is not parseable check_jacoco_coverage returns the empty list
\* for the focal lists of the commit, and the verifier goes on as with zero
\* coverage: the passing test adds no pair and no count and the loop
\* continues with the next test.
C23_InterpreterFailureMode ==
  /\ []((InCommit /\ HasMethodFields(commit_info)) =>
          \A r \in 1..Len(Reports) :
             Unusable(Reports[r]) =>
               /\ check_jacoco_coverage(Reports[r], commit_info.focal_methods.new) = <<>>
               /\ check_jacoco_coverage(Reports[r], commit_info.focal_methods.old) = <<>>)
  /\ [][ (pc \in {"new_test", "old_test"} /\ pc' \in {"new_loop", "old_loop"}
            /\ cmdLog'[Len(cmdLog) + 1].ok /\ Unusable(Reports[workspace'.report])) =>
           /\ Last(cmdLog').cmd = "check_jacoco_coverage"
           /\ Last(cmdLog').covered = <<>>
           /\ UNCHANGED <<new_pairs, old_pairs, new_coverage_count, old_coverage_count,
                          result, exit_path, vstate>>
           /\ ti' = ti + 1 ]_vars

\* a passing test whose report file is not XML
C23_Witness ==
  /\ pc = "new_loop"
  /\ cmdLog # <<>>
  /\ Last(cmdLog).cmd = "check_jacoco_coverage"
  /\ Reports[workspace.report].exists
  /\ ~Reports[workspace.report].parseable
  /\ Last(cmdLog).covered = <<>>
  /\ new_coverage_count = 0
\* the jacoco-maven-plugin blocks of a pom.xml, wherever they stand
CoverageBlocks(doc) ==
  SelectSeq(doc.plugins \o doc.elsewhere, LAMBDA b : b \in JacocoBlocks)

OtherPlugins(blocks) == SelectSeq(blocks, LAMBDA b : b \in OtherBlocks)

\* C24: after configure_jacoco_in_pom has been applied one or more times to a
\* pom.xml, also one that already had a jacoco-maven-plugin block, the file
\* holds exactly one jacoco-maven-plugin block, and every other plugin block
\* is where it was. (The code leaves a block it does not recognise and adds
\* its own next to it.)
C24_IdempotentInjection ==
  (pc = "pom" /\ pom_xml.applied >= 1) =>
    /\ Len(CoverageBlocks(pom_xml.doc)) = 1
    /\ OtherPlugins(pom_xml.doc.plugins) = OtherPlugins(pom_xml.original.plugins)
    /\ OtherPlugins(pom_xml.doc.elsewhere) = OtherPlugins(pom_xml.original.elsewhere)

\* C24 restricted to the files whose jacoco-maven-plugin blocks the pattern of
\* line 439 recognises
C24_RecognisedBlocks ==
  (/\ pc = "pom"
   /\ pom_xml.applied >= 1
   /\ \A i \in 1..Len(CoverageBlocks(pom_xml.original)) :
         MatchesJacocoPattern(CoverageBlocks(pom_xml.original)[i])) =>
    /\ CoverageBlocks(pom_xml.doc) = <<"jacoco">>
    /\ OtherPlugins(pom_xml.doc.plugins) = OtherPlugins(pom_xml.original.plugins)
    /\ OtherPlugins(pom_xml.doc.elsewhere) = OtherPlugins(pom_xml.original.elsewhere)

\* the pom.xml modify_java_version reads at the current position
PreparedPom ==
  RepoPom(commit_id, IF pc = "prepare_new" THEN "new" ELSE "old")

\* the toolchain equal to a declared version, 8 when there is none
ToolchainFor(version) ==
  LET v == IF version = "1.8" THEN "8" ELSE version
  IN IF v \in {"8", "17", "21"} THEN v ELSE "8"

\* C25: when the pom.xml declares a target version, environment preparation
\* selects the toolchain of {8, 17, 21} equal to it (1.8 read as 8), and 8 when
\* the declared target is none of the three. (The code reads the declared
\* source version first and looks at the target only when no source is
\* declared.)
C25_ToolchainSelection ==
  [][ (/\ pc \in {"prepare_new", "prepare_old"}
       /\ pc' \in {"new_loop", "old_loop"}
       /\ PreparedPom.target_version # "none")
      => java_home' = ToolchainFor(PreparedPom.target_version) ]_vars

\* C25 for the descriptors in which the first declared of source and target
\* is the target
C25_FirstDeclared ==
  [][ (/\ pc \in {"prepare_new", "prepare_old"}
       /\ pc' \in {"new_loop", "old_loop"}
       /\ PreparedPom.target_version # "none"
       /\ PreparedPom.src_version \in {"none", PreparedPom.target_version})
      => java_home' = ToolchainFor(PreparedPom.target_version) ]_vars

\* C26: when append_result replaces the record of commit c, the new record
\* stands where the old one stood and every other record keeps its content
\* and its place; when the collection has no record of c, the new record is
\* added at the end and the existing records are unchanged.
C26_UpsertFrame ==
  [][ (/\ pc = "acc"
       /\ appended' = Append(appended, result'))
      => LET old == existing_results(resultsFile)
             new == resultsFile'.data
             at == {i \in 1..Len(old) : old[i].commit = result'.commit}
         IN /\ resultsFile'.state = "ok"
            /\ IF at # {}
               THEN /\ Len(new) = Len(old)
                    /\ \E i \in at :
                         /\ new[i] = result'
                         /\ \A j \in 1..Len(old) : j # i => new[j] = old[j]
               ELSE new = Append(old, result') ]_vars

\* the record of a commit was replaced at the first position, ahead of the
\* record of another commit, which stayed second
C26_Witness ==
  /\ pc = "acc"
  /\ Len(appended) = 1
  /\ resultsFile.state = "ok"
  /\ Len(resultsFile.data) = 2
  /\ resultsFile.data[1] = appended[1]
  /\ resultsFile.data[2].commit # appended[1].commit

\* C27: when append_result cannot parse the existing results file, it does
\* not raise and the batch goes on to its checkpoint; the existing collection
\* counts as empty, so the file afterwards holds exactly the one record being
\* appended.
C27_ReadFailure ==
  [][ (/\ pc = "append"
       /\ resultsFile.state = "corrupt"
       /\ appended' = Append(appended, result))
      => /\ resultsFile' = [state |-> "ok", data |-> <<result>>]
         /\ pc' = "post"
         /\ success' = (result.status = "success") ]_vars

\* the first append of a run that found the results file unreadable has
\* returned: the file holds that one record
C27_Witness ==
  /\ pc = "post"
  /\ resultsAtLoad.state = "corrupt"
  /\ Len(handed) = 1
  /\ appended # <<>>
  /\ resultsFile = [state |-> "ok", data |-> <<Last(appended)>>]

\* C28: whatever runs, kills and re-runs led to it (a kill between the
\* checkpoint after commit k and the checkpoint before commit k+1, a re-run
\* of a completed project), the persisted successful_commits counts the
\* distinct commits whose verification ended with success: it exceeds neither
\* their number nor the number of distinct processed commits. (The code
\* counts a commit again each time a run skips it as already processed.)
C28_CounterAccuracy ==
  progressFile.state = "ok" =>
    /\ progressFile.data.successful_commits <= Cardinality(succeeded)
    /\ progressFile.data.successful_commits
         <= Cardinality(Range(progressFile.data.processed_commits))

\* C29: the persisted processed_commits holds each commit identifier at most
\* once, and a write of the progress file only ever extends the list at its
\* end. (The code appends the identifier of a skipped commit again.)
C29_ProcessedOnce ==
  /\ [](progressFile.state = "ok" =>
          \A i, j \in 1..Len(progressFile.data.processed_commits) :
             i # j => progressFile.data.processed_commits[i]
                        # progressFile.data.processed_commits[j])
  /\ [][ (progressFile.state = "ok" /\ progressFile'.state = "ok")
         => /\ Len(progressFile'.data.processed_commits)
                 >= Len(progressFile.data.processed_commits)
            /\ SubSeq(progressFile'.data.processed_commits, 1,
                      Len(progressFile.data.processed_commits))
                 = progressFile.data.processed_commits ]_vars

\* the part of C29 the code keeps: a write of the progress file never removes
\* or reorders an identifier, it leaves the list or extends it at its end
C29_AppendOnly ==
  [][ (progressFile.state = "ok" /\ progressFile'.state = "ok")
      => \E k \in 0..1 :
           /\ Len(progressFile'.data.processed_commits)
                = Len(progressFile.data.processed_commits) + k
           /\ SubSeq(progressFile'.data.processed_commits, 1,
                     Len(progressFile.data.processed_commits))
                = progressFile.data.processed_commits ]_vars

\* the work list holds only descriptors with all the keys the driver reads
WellFormedWorkList ==
  \A i \in 1..total_commits :
     "commit" \in DOMAIN commits_data[i] /\ HasMethodFields(commits_data[i])

\* the project is persisted as completed and every commit of its work list
\* is in the persisted processed_commits
AllProcessed ==
  /\ Completed(progressFile)
  /\ \A i \in 1..total_commits :
       "commit" \in DOMAIN commits_data[i]
         => commits_data[i].commit.sha1 \in Range(progressFile.data.processed_commits)

\* C30: when every command terminates, the work list is fixed and the
\* process is killed only finitely often, re-invoking the driver eventually
\* brings the project to persisted status completed with every commit of the
\* work list in processed_commits. (A descriptor without the keys the driver
\* reads ends every invocation at the same commit.)
C30_Liveness == <>AllProcessed

\* C30 for the work lists whose descriptors all have the keys the driver reads
C30_WellFormedLiveness == WellFormedWorkList => <>AllProcessed

\* C31: the JAVA_HOME in effect while the tests of a revision run depends
\* only on the pom.xml of that revision: whichever commits the process
\* handled before, every run of the tests of one revision has the same
\* JAVA_HOME, also when the pom.xml declares no version. (The code leaves
\* JAVA_HOME as the last revision with a declared version set it.)
C31_NoToolchainLeakage ==
  \A a, b \in tested_with :
     (a.sha = b.sha /\ a.rev = b.rev) => a.java_home = b.java_home

\* C31 for the revisions whose pom.xml declares a version
C31_DeclaredVersions ==
  \A a \in tested_with :
     (RepoPom(a.sha, a.rev).src_version # "none"
        \/ RepoPom(a.sha, a.rev).target_version # "none")
       => a.java_home = modify_java_version(RepoPom(a.sha, a.rev), "unset")

\* the lines of the diff that change a test file (a rename: either path)
TestChanges(diff) ==
  SelectSeq(diff, LAMBDA l : is_test_file(l[2]) \/ (Len(l) > 2 /\ is_test_file(l[3])))

\* the work tree holds the parent's state of the file(s) of one diff line
Restored(tree, diff, l) ==
  /\ tree[l[2]] = ParentTree(diff)[l[2]]
  /\ Len(l) > 2 => tree[l[3]] = ParentTree(diff)[l[3]]

\* C32: when revert_test_changes returns True, every test file changed
\* between HEAD^ and HEAD is in its parent's state: an added one is gone, a
\* modified or deleted one is restored, a renamed one is back under its old
\* path and gone from its new path. (The code leaves a renamed test file as
\* it is and returns True.)
C32_RevertTestChanges ==
  (pc = "revert_done" /\ rv.returned = "True") =>
    \A i \in 1..Len(TestChanges(rv.diff)) :
       Restored(rv.tree, rv.diff, TestChanges(rv.diff)[i])

\* C32 for the added, modified and deleted test files
C32_AddedModifiedDeleted ==
  (pc = "revert_done" /\ rv.returned = "True") =>
    \A i \in 1..Len(TestChanges(rv.diff)) :
       TestChanges(rv.diff)[i][1] \in {<<"A">>, <<"M">>, <<"D">>}
         => Restored(rv.tree, rv.diff, TestChanges(rv.diff)[i])

====
